---- MODULE Spec2Model ----
(***************************************************************************)
(* NanoAgent runtime: the single-step transition (stepAgent), the loop     *)
(* driver (loopAgent), Sequence chaining and runWorkflow (workflow.ts),    *)
(* the memory-patch composer and the tool registry (tool.ts) and the MCP   *)
(* client's tool lookup (mcpClient.ts).                                    *)
(*                                                                         *)
(* Specifications:                                                         *)
(*   SpecStep   one stepAgent call on an arbitrary context and state       *)
(*              (one action per await of stepAgent)                        *)
(*   Spec       runWorkflow -> Sequence.next -> loopAgent -> stepAgent     *)
(*   SpecObs    the same with the observer callbacks installed             *)
(*   SpecLive   the same with finite budgets and hooks that return, under  *)
(*              weak fairness (termination)                                *)
(*   SpecPatch  composePatches on a base memory and a list of patches      *)
(*   SpecTools  ToolRegistry add/remove/call and MCPClient.registeredTool  *)
(*   SpecMCP    MCPClient.callTool against the serveMCP tool-call route    *)
(*   SpecChat   ChatModel.invoke and ChatModel.stop (model.ts)             *)
(***************************************************************************)
EXTENDS Integers, Sequences, FiniteSets, TLC

VARIABLES
  \* ---- stepAgent
  step,         \* the stepAgent activation: arguments, position, calls, outcome
  \* ---- Spec: runWorkflow
  seqs,         \* the Sequence objects created so far: id -> [ctx, state, options]
  history,      \* runWorkflow's history (Sequence ids, in push order)
  current,      \* runWorkflow's current Sequence (id)
  wf,           \* runWorkflow's outcome record
  loop,         \* the loopAgent activation of current.run()
  observed,     \* the observer calls of that activation: how many, last argument
  \* ---- SpecPatch: composePatches
  patchIn,      \* [memory, patches]
  patchOut,     \* outcome of composePatches
  \* ---- SpecTools: ToolRegistry and MCPClient
  registry,     \* ToolRegistry._tools: name -> entry kind, for registered names
  handlerRuns,  \* number of handler invocations so far
  toolOut,      \* outcome of the last ToolRegistry.call / registeredTool
  mcp,          \* MCPClient fields and pending calls
  now,          \* Date.now(), in minutes
  \* ---- SpecChat: ChatModel
  chat          \* ChatModel fields and the requests it has sent

wfVars    == <<seqs, history, current, wf, loop, observed>>
patchVars == <<patchIn, patchOut>>
toolVars  == <<registry, handlerRuns, toolOut, mcp, now>>
chatVars  == <<chat>>
vars      == <<step, wfVars, patchVars, toolVars, chatVars>>

(***************************************************************************)
(* Bounds                                                                  *)
(***************************************************************************)
MaxInitLen == 2     \* longest initial message list
MaxMsgs    == 3     \* longest message list a loop may build
MaxBudget  == 2     \* largest finite maxSteps
MaxStages  == 2     \* most Sequence objects of one workflow
StepCap    == 3     \* most steps explored in a loop with no maxSteps
MaxPatches == 2     \* longest list of patches composed
MaxCalls   == 2     \* most tool calls and lookups explored
MaxFetches == 2     \* most requests for the tool list explored
MaxNow     == 6     \* latest clock value explored, in minutes
MaxPosts   == 2     \* most tool calls sent to the MCP server
MaxRequests == 2    \* most completion requests of one ChatModel
MaxStops   == 2     \* most calls of ChatModel.stop

(***************************************************************************)
(* Content and messages (content.ts, message.ts)                           *)
(***************************************************************************)
None == "none"

\* Content | null.  A text is a sequence of characters.
NullContent == [type |-> "null", text |-> <<>>]
JsonContent == [type |-> "json", text |-> <<>>]
text(s)     == [type |-> "text", text |-> s]

isTextContent(c) == c.type # "null" /\ c.type = "text"

\* JavaScript truthiness of msg.content: null is falsy, every object is truthy.
Truthy(c) == c.type # "null"

IsSpace(ch) == ch \in {" ", "\t", "\n"}

RECURSIVE trimStart(_)
trimStart(s) ==
  IF s = <<>> THEN <<>>
  ELSE IF IsSpace(Head(s)) THEN trimStart(Tail(s)) ELSE s

RECURSIVE trimEnd(_)
trimEnd(s) ==
  IF s = <<>> THEN <<>>
  ELSE IF IsSpace(s[Len(s)]) THEN trimEnd(SubSeq(s, 1, Len(s) - 1)) ELSE s

\* String.prototype.trim
trim(s) == trimEnd(trimStart(s))

Message(role, content) == [role |-> role, content |-> content]
SystemMessage(s)    == Message("system", text(s))
UserMessage(s)      == Message("user", text(s))

\* messages[messages.length - 1]; undefined on the empty list
NoMessage == Message("undefined", NullContent)
Last(messages) == IF messages = <<>> THEN NoMessage ELSE messages[Len(messages)]

\* Variant: only the role tool counts as a tool message
isToolMessageToolOnly(msg) == msg.role = "tool"
isToolMessage(msg)      == msg.role = "tool" \/ msg.role = "function"
isAssistantMessage(msg) == msg.role = "assistant"
\* Variant: compares the text with "" without trimming it
isEmptyAssistantMessageNoTrim(msg) ==
  /\ isAssistantMessage(msg)
  /\ \/ ~Truthy(msg.content)
     \/ (isTextContent(msg.content) /\ msg.content.text = <<>>)
isEmptyAssistantMessage(msg) ==
  /\ isAssistantMessage(msg)
  /\ \/ ~Truthy(msg.content)
     \/ (isTextContent(msg.content) /\ trim(msg.content.text) = <<>>)
\* Variant: off by one in the length test
hasTwoAssistantInRowOffByOne(messages) ==
  /\ Len(messages) > 2
  /\ isAssistantMessage(messages[Len(messages)])
  /\ isAssistantMessage(messages[Len(messages) - 1])
hasTwoAssistantInRow(messages) ==
  /\ Len(messages) > 1
  /\ isAssistantMessage(messages[Len(messages)])
  /\ isAssistantMessage(messages[Len(messages) - 1])

(***************************************************************************)
(* Halt status and agent state (workflow.ts)                               *)
(***************************************************************************)
AwaitUserKind == "await_user"
ToolErrorKind == "tool_error"
DoneKind      == "done"
StoppedKind   == "stopped"
HaltKind == {AwaitUserKind, ToolErrorKind, DoneKind, StoppedKind}

NotHalted == [kind |-> None, error |-> None]          \* halted: undefined
awaitUser == [kind |-> AwaitUserKind, error |-> None]
Done      == [kind |-> DoneKind, error |-> None]
Stopped   == [kind |-> StoppedKind, error |-> None]
ToolError(e) == [kind |-> ToolErrorKind, error |-> e]

AgentState(id, messages, memory, halted) ==
  [id |-> id, model |-> "model", messages |-> messages,
   memory |-> memory, halted |-> halted]

(***************************************************************************)
(* External collaborators of one step.  Each is asynchronous and may       *)
(* resolve to any value of its type or reject; an oracle fixes the outcome *)
(* of every collaborator a step could consult.                             *)
(***************************************************************************)
Assistant(c) == Message("assistant", c)
ToolMsg      == Message("tool", text(<<"r">>))
FunctionMsg  == Message("function", text(<<"r">>))

\* Assistant contents: null (tool calls only), empty, blank, padded, plain, json
AssistantContents ==
  {NullContent, text(<<>>), text(<<" ">>), text(<<" ", "a", " ">>),
   text(<<"a">>), JsonContent}

\* What Model.complete does to the transcript it is given
Edits ==
  [op : {"keep"},
   msgs : {<<>>} \cup {<<Assistant(c)>> : c \in AssistantContents}
          \cup {<<ToolMsg>>, <<FunctionMsg>>, <<Assistant(NullContent), ToolMsg>>,
                <<Assistant(text(<<"a">>)), Assistant(text(<<"a">>))>>,
                <<UserMessage(<<"u">>)>>}]
  \cup [op : {"replaceLast"}, msgs : {<<Assistant(text(<<"a">>))>>, <<ToolMsg>>}]
  \cup [op : {"dropLast"}, msgs : {<<>>}]

Front(messages) ==
  IF messages = <<>> THEN <<>> ELSE SubSeq(messages, 1, Len(messages) - 1)

applyEdit(messages, e) ==
  CASE e.op = "keep"        -> messages \o e.msgs
    [] e.op = "replaceLast" -> IF messages = <<>> THEN <<>>
                               ELSE Front(messages) \o e.msgs
    [] e.op = "dropLast"    -> Front(messages)

Memories == {"m0", "m1"}

ModelOutcomes ==
  [kind : {"ok"}, edit : Edits, memory : Memories, error : {None}]
  \cup [kind : {"throw"}, edit : {[op |-> "keep", msgs |-> <<>>]},
        memory : {"m0"}, error : {"model_error", "tool_error"}]

\* What a getUserInput hook may do: resolve to a text (possibly empty) or reject
InputOutcomes ==
  [kind : {"ok"}, text : {<<"i">>, <<>>}] \cup [kind : {"throw"}, text : {<<>>}]
\* The same inside loops, where one text is explored
LoopInputOutcomes ==
  [kind : {"ok"}, text : {<<"i">>}] \cup [kind : {"throw"}, text : {<<>>}]

\* What a controller hook may make of the state it receives
CtlOutcomes == {"same", "append", "resume", "finish", "throw"}

controller(s, c) ==
  CASE c = "same"   -> s
    [] c = "append" -> [s EXCEPT !.messages = Append(@, SystemMessage(<<"c">>))]
    [] c = "resume" -> [s EXCEPT !.messages = Append(@, SystemMessage(<<"c">>)),
                                 !.halted = NotHalted]
    [] c = "finish" -> [s EXCEPT !.halted = Done]
    [] OTHER        -> s

(***************************************************************************)
(* stepAgent (workflow.ts).  The function runs up to its first await, then *)
(* resumes each time the collaborator it awaits settles.                   *)
(***************************************************************************)
\* A call to a collaborator: the state it was made on, how it settled
\* ("pending" until then; "ok", "throw", or the answer of the classifier or
\* of the goal test afterwards) and what it returned
Pending(fn, s) == [fn |-> fn, arg |-> s, ans |-> "pending", res |-> s]

Activation(ctx, options, state) ==
  [pc |-> "idle", ctx |-> ctx, options |-> options, in |-> state,
   new |-> state, calls |-> <<>>, logs |-> 0, out |-> state, error |-> None]

\* await fn(s)
await(a, fn, s) == [a EXCEPT !.pc = fn, !.calls = Append(@, Pending(fn, s))]
\* the awaited call settles
settle(a, ans, res) ==
  [a EXCEPT !.calls[Len(a.calls)] = [@ EXCEPT !.ans = ans, !.res = res]]
return(a, s) == [a EXCEPT !.pc = "returned", !.out = s]
throw(a, e)  == [a EXCEPT !.pc = "thrown", !.error = e]

\* Number of lines written by the debug block
debugLines(options, state) ==
  IF options.debug
  THEN 1 + (IF state.messages = <<>> THEN 0 ELSE Len(state.messages) - 1)
         + (IF state.memory # None THEN 1 ELSE 0)
  ELSE 0

\* Variant: Done and Stopped share the ToolError case
haltedStepFallThrough(a) ==
  CASE a.in.halted.kind = AwaitUserKind ->
         IF a.ctx.getUserInput = None
           THEN throw(a, "No getUserInput handler provided.")
           ELSE await(a, "getUserInput", a.in)
    [] OTHER ->
         IF a.ctx.controller # None
           THEN await(a, "controller", a.in)
           ELSE return(a, a.in)

\* Variant: without a getUserInput hook an AwaitUser state is returned as is
haltedStepIgnoresMissingHook(a) ==
  CASE a.in.halted.kind = AwaitUserKind ->
         IF a.ctx.getUserInput = None
           THEN return(a, a.in)
           ELSE await(a, "getUserInput", a.in)
    [] a.in.halted.kind = ToolErrorKind ->
         IF a.ctx.controller # None
           THEN await(a, "controller", a.in)
           ELSE return(a, a.in)
    [] OTHER -> return(a, a.in)

\* Variant: a ToolError state with no controller is given to the model again
haltedStepRetriesToolError(a) ==
  CASE a.in.halted.kind = AwaitUserKind ->
         IF a.ctx.getUserInput = None
           THEN throw(a, "No getUserInput handler provided.")
           ELSE await(a, "getUserInput", a.in)
    [] a.in.halted.kind = ToolErrorKind ->
         IF a.ctx.controller # None
           THEN await(a, "controller", a.in)
           ELSE await(a, "model", a.in)
    [] OTHER -> return(a, a.in)

\* if (state.halted) switch (state.halted.kind) ...
haltedStep(a) ==
  CASE a.in.halted.kind = AwaitUserKind ->
         IF a.ctx.getUserInput = None
           THEN throw(a, "No getUserInput handler provided.")
           ELSE await(a, "getUserInput", a.in)
    [] a.in.halted.kind = ToolErrorKind ->
         IF a.ctx.controller # None
           THEN await(a, "controller", a.in)
           ELSE return(a, a.in)
    [] OTHER -> return(a, a.in)

\* Variant: the model is called before the halt status is examined
enterCallsModelFirst(a) ==
  await([a EXCEPT !.logs = debugLines(a.options, a.in)], "model", a.in)

\* stepAgent up to its first await (or to its end when it awaits nothing)
enter(a) ==
  LET a1 == [a EXCEPT !.logs = debugLines(a.options, a.in)]
  IN IF a.in.halted.kind # None
       THEN haltedStep(a1)
       ELSE await(a1, "model", a.in)

\* Variant: the halt status is kept when the user's text is appended
onGetUserInputKeepsHalt(a, r) ==
  IF r.kind = "throw"
  THEN throw(settle(a, "throw", a.in), "getUserInput_error")
  ELSE return(settle(a, "ok", r.text),
              [a.in EXCEPT !.messages = Append(@, UserMessage(r.text))])

\* const content = await ctx.getUserInput(ctx, state)
onGetUserInput(a, r) ==
  IF r.kind = "throw"
  THEN throw(settle(a, "throw", a.in), "getUserInput_error")
  ELSE return(settle(a, "ok", r.text),
              [a.in EXCEPT !.messages = Append(@, UserMessage(r.text)),
                           !.halted = NotHalted])

\* return ctx.controller(s): the step settles as the controller does
onController(a, c) ==
  LET s == a.calls[Len(a.calls)].arg
  IN IF c = "throw"
       THEN throw(settle(a, "throw", s), "controller_error")
       ELSE return(settle(a, "ok", controller(s, c)), controller(s, c))

\* Variant: "no new messages" decided by comparing the lists, not their lengths
isStuckByContent(state, messages) ==
  LET last           == Last(messages)
      msgsUnchanged  == messages = state.messages
      emptyAssistant == isEmptyAssistantMessage(last)
      twoAssistant   == hasTwoAssistantInRow(messages)
  IN msgsUnchanged \/ (isAssistantMessage(last) /\ (emptyAssistant \/ twoAssistant))

\* Stuck detection: no new msgs OR empty/duplicate assistant
isStuck(state, messages) ==
  LET last           == Last(messages)
      msgsUnchanged  == Len(messages) = Len(state.messages)
      emptyAssistant == isEmptyAssistantMessage(last)
      twoAssistant   == hasTwoAssistantInRow(messages)
  IN msgsUnchanged \/ (isAssistantMessage(last) /\ (emptyAssistant \/ twoAssistant))

\* Variant: the goal test is consulted whatever the role of the last message
goalCheckAnyRole(a) == await(a, "isFinal", a.new)

\* if (isAssistantMessage(last) && (await ctx.isFinal(newState)))
goalCheck(a) ==
  IF isAssistantMessage(Last(a.new.messages))
    THEN await(a, "isFinal", a.new)
    ELSE return(a, a.new)

\* Variant: a stuck step with no controller returns the updated state at once
afterModelStuckReturns(a, output) ==
  LET messages == output.messages
      last     == Last(messages)
      newState == [a.in EXCEPT !.messages = messages, !.memory = output.memory]
      a1       == [a EXCEPT !.new = newState]
  IN IF isStuck(a.in, messages)
       THEN IF a.ctx.controller # None
              THEN await(a1, "controller", newState)
              ELSE return(a1, newState)
     ELSE IF isToolMessage(last)
       THEN return(a1, newState)
     ELSE IF Truthy(last.content)
       THEN await(a1, "requestsInput", newState)
     ELSE goalCheck(a1)

\* Variant: the tool-message check comes before stuck detection
afterModelToolFirst(a, output) ==
  LET messages == output.messages
      last     == Last(messages)
      newState == [a.in EXCEPT !.messages = messages, !.memory = output.memory]
      a1       == [a EXCEPT !.new = newState]
  IN IF isToolMessage(last)
       THEN return(a1, newState)
     ELSE IF a.ctx.controller # None /\ isStuck(a.in, messages)
       THEN await(a1, "controller", newState)
     ELSE IF Truthy(last.content)
       THEN await(a1, "requestsInput", newState)
     ELSE goalCheck(a1)

\* Variant: a configured controller is consulted after every model call
afterModelAlwaysControls(a, output) ==
  LET messages == output.messages
      newState == [a.in EXCEPT !.messages = messages, !.memory = output.memory]
      a1       == [a EXCEPT !.new = newState]
  IN IF a.ctx.controller # None
       THEN await(a1, "controller", newState)
     ELSE IF isToolMessage(Last(messages))
       THEN return(a1, newState)
     ELSE IF Truthy(Last(messages).content)
       THEN await(a1, "requestsInput", newState)
     ELSE goalCheck(a1)

\* The part of stepAgent after a successful model call, up to the next await
afterModel(a, output) ==
  LET messages == output.messages
      last     == Last(messages)
      newState == [a.in EXCEPT !.messages = messages, !.memory = output.memory]
      a1       == [a EXCEPT !.new = newState]
  IN IF a.ctx.controller # None /\ isStuck(a.in, messages)
       THEN await(a1, "controller", newState)
     ELSE IF isToolMessage(last)
       THEN return(a1, newState)
     ELSE IF Truthy(last.content)
       THEN await(a1, "requestsInput", newState)
     ELSE goalCheck(a1)

\* Variant: the error of the model call is thrown again when there is no
\* controller
onModelRethrows(a, m) ==
  IF m.kind = "throw"
  THEN LET halted == [a.in EXCEPT !.halted = ToolError(m.error)]
           a1     == settle(a, "throw", m.error)
       IN IF a.ctx.controller # None
            THEN await(a1, "controller", halted)
            ELSE throw(a1, m.error)
  ELSE LET output == [messages |-> applyEdit(a.in.messages, m.edit),
                      memory |-> m.memory]
       IN afterModel(settle(a, "ok", output), output)

\* Variant: the state built after a failed model call loses its last message
onModelFailureDropsLast(a, m) ==
  IF m.kind = "throw"
  THEN LET halted == [a.in EXCEPT !.messages = Front(@),
                                  !.halted = ToolError(m.error)]
           a1     == settle(a, "throw", m.error)
       IN IF a.ctx.controller # None
            THEN await(a1, "controller", halted)
            ELSE return(a1, halted)
  ELSE LET output == [messages |-> applyEdit(a.in.messages, m.edit),
                      memory |-> m.memory]
       IN afterModel(settle(a, "ok", output), output)

\* output = await state.model.complete(state.messages, {memory, tools})
onModel(a, m) ==
  IF m.kind = "throw"
  THEN LET halted == [a.in EXCEPT !.halted = ToolError(m.error)]
           a1     == settle(a, "throw", m.error)
       IN IF a.ctx.controller # None
            THEN await(a1, "controller", halted)
            ELSE return(a1, halted)
  ELSE LET output == [messages |-> applyEdit(a.in.messages, m.edit),
                      memory |-> m.memory]
       IN afterModel(settle(a, "ok", output), output)

\* await requestsInput(last.content)
onRequestsInput(a, ans) ==
  CASE ans = "throw" -> throw(settle(a, ans, a.new), "classifier_error")
    [] ans = "yes"   -> return(settle(a, ans, a.new),
                               [a.new EXCEPT !.halted = awaitUser])
    [] OTHER         -> goalCheck(settle(a, ans, a.new))

\* Variant: a failure of the goal test halts the state with ToolError
onIsFinalCatches(a, ans) ==
  CASE ans = "throw" -> return(settle(a, ans, a.new),
                               [a.new EXCEPT !.halted = ToolError("isFinal_error")])
    [] ans = "true"  -> return(settle(a, ans, a.new),
                               [a.new EXCEPT !.halted = Done])
    [] OTHER         -> return(settle(a, ans, a.new), a.new)

\* await ctx.isFinal(newState)
onIsFinal(a, ans) ==
  CASE ans = "throw" -> throw(settle(a, ans, a.new), "isFinal_error")
    [] ans = "true"  -> return(settle(a, ans, a.new),
                               [a.new EXCEPT !.halted = Done])
    [] OTHER         -> return(settle(a, ans, a.new), a.new)

Settled(a) == a.pc \in {"returned", "thrown"}

(***************************************************************************)
(* Contexts, options and states a caller may pass                          *)
(***************************************************************************)
AgentContext(g, c, n) ==
  [getUserInput |-> g, controller |-> c, nextSequence |-> n]

MsgPool ==
  {SystemMessage(<<"s">>), UserMessage(<<"u">>), Assistant(text(<<"a">>)), ToolMsg}

RECURSIVE SeqsUpTo(_, _)
SeqsUpTo(S, n) ==
  IF n = 0 THEN {<<>>}
  ELSE LET shorter == SeqsUpTo(S, n - 1)
       IN shorter \cup {Append(q, x) : q \in shorter, x \in S}

InitLists == SeqsUpTo(MsgPool, MaxInitLen)

Halts == {NotHalted, awaitUser, ToolError("tool_failed"), Done, Stopped}

InitStates ==
  {AgentState("s1", m, mem, h) :
     m \in InitLists, mem \in {None, "m0"}, h \in Halts}

StepContexts ==
  {AgentContext(g, c, None) : g \in {None, "input1"}, c \in {None, "ctl1"}}

(***************************************************************************)
(* Idle values of the parts a specification does not exercise              *)
(***************************************************************************)
\* The calls the observers of a loopAgent run have received
NotObserved ==
  [fn \in {"onStateChange", "onStart", "onStop"} |-> [n |-> 0, last |-> {}]]

WfIdle ==
  /\ seqs = <<>>
  /\ history = <<>>
  /\ current = 0
  /\ wf = [pc |-> "idle"]
  /\ loop = [pc |-> "idle"]
  /\ observed = NotObserved

PatchIdle ==
  /\ patchIn = [memory |-> <<>>, patches |-> <<>>]
  /\ patchOut = [ret |-> None]

\* new ChatModel(options): no request sent, no abort controller
NewChatModel(stream) ==
  [stream |-> stream, abortCtl |-> 0, reqs |-> <<>>, stops |-> 0]

ChatIdle == chat = NewChatModel(FALSE)

ToolIdle ==
  /\ registry = <<>>
  /\ handlerRuns = 0
  /\ toolOut = [n |-> 0]
  /\ mcp = [cache |-> 0]
  /\ now = 0

(***************************************************************************)
(* The collaborators settle                                                *)
(***************************************************************************)
\* Inside a loop the transcript is kept within MaxMsgs
Bounded(a) == wf.pc = "running" => Len(a.out.messages) <= MaxMsgs

Others == <<wfVars, patchVars, chatVars, toolVars>>

GetUserInputSettles ==
  /\ step.pc = "getUserInput"
  /\ \E r \in (IF wf.pc = "idle" THEN InputOutcomes ELSE LoopInputOutcomes) :
       /\ step' = onGetUserInput(step, r)
       /\ Bounded(step')
  /\ UNCHANGED Others

ControllerSettles ==
  /\ step.pc = "controller"
  /\ \E c \in CtlOutcomes :
       /\ step' = onController(step, c)
       /\ Bounded(step')
  /\ UNCHANGED Others

RequestsInputSettles ==
  /\ step.pc = "requestsInput"
  /\ \E ans \in {"yes", "no", "throw"} : step' = onRequestsInput(step, ans)
  /\ UNCHANGED Others

IsFinalSettles ==
  /\ step.pc = "isFinal"
  /\ \E ans \in {"true", "false", "throw"} : step' = onIsFinal(step, ans)
  /\ UNCHANGED Others

Settles ==
  GetUserInputSettles \/ ControllerSettles \/ RequestsInputSettles \/ IsFinalSettles

(***************************************************************************)
(* SpecStep: stepAgent applied once to any context, options and state      *)
(***************************************************************************)
InitStep ==
  /\ step \in {Activation(c, o, st) :
                 c \in StepContexts, o \in [debug : BOOLEAN], st \in InitStates}
  /\ WfIdle /\ PatchIdle /\ ToolIdle /\ ChatIdle

\* stepAgent(ctx, state, options) is called
StepStart ==
  /\ wf.pc = "idle"
  /\ step.pc = "idle"
  /\ step' = enter(step)
  /\ UNCHANGED Others

StepModelSettles ==
  /\ wf.pc = "idle"
  /\ step.pc = "model"
  /\ \E m \in ModelOutcomes : step' = onModel(step, m)
  /\ UNCHANGED Others

NextStep == StepStart \/ StepModelSettles \/ Settles

SpecStep == InitStep /\ [][NextStep]_vars

(***************************************************************************)
(* loopAgent (workflow.ts)                                                 *)
(***************************************************************************)
\* maxSteps absent from an options object
Unset == -1
\* Number.POSITIVE_INFINITY
Infinity == -2

\* The observer callbacks of an options object: which of them are installed
NoObservers  == [onStateChange |-> FALSE, onStart |-> FALSE, onStop |-> FALSE]
AllObservers == [onStateChange |-> TRUE, onStart |-> TRUE, onStop |-> TRUE]

SequenceOptions(maxSteps, preserveInput) ==
  [maxSteps |-> maxSteps, preserveInput |-> preserveInput, debug |-> FALSE,
   observers |-> NoObservers]

\* if (options?.onX) options.onX(state): the callback is absent, or it is
\* called and returns (its value is dropped), or it is called and throws
notify(installed) == IF installed THEN {"ok", "throw"} ELSE {"absent"}
ObserverError == "observer_error"
\* options.onX(state) is called, unless absent
see(obsd, fn, o, state) ==
  IF o = "absent" THEN obsd
  ELSE [obsd EXCEPT ![fn] = [n |-> @.n + 1, last |-> {state}]]

\* let remaining = options.maxSteps ?? Number.POSITIVE_INFINITY
initialRemaining(options) ==
  IF options.maxSteps = Unset THEN Infinity ELSE options.maxSteps

\* Variant: the budget is tested before the halt status
loopHeadBudgetFirst(state, remaining) ==
  IF remaining = 0
    THEN "stop"
  ELSE IF state.halted.kind = DoneKind \/ state.halted.kind = StoppedKind
    THEN "return"
  ELSE "step"

\* Variant: the loop stops once the budget has gone below zero
loopHeadLateStop(state, remaining) ==
  IF state.halted.kind = DoneKind \/ state.halted.kind = StoppedKind
    THEN "return"
  ELSE IF remaining # Infinity /\ remaining < 0
    THEN "stop"
  ELSE "step"

\* The checks at the top of an iteration, in the order the code makes them
loopHead(state, remaining) ==
  IF state.halted.kind = DoneKind \/ state.halted.kind = StoppedKind
    THEN "return"
  ELSE IF remaining = 0
    THEN "stop"
  ELSE "step"

\* remaining === Infinity ? Infinity : remaining - 1
decrement(remaining) ==
  IF remaining = Infinity THEN Infinity ELSE remaining - 1

\* loopAgent(ctx, initState, options) before its first iteration
startLoop(state, options) ==
  [pc |-> "head", init |-> state, state |-> state,
   remaining |-> initialRemaining(options),
   steps |-> 0, finished |-> 0, modelCalls |-> 0, result |-> state,
   error |-> None]

\* Model behaviours explored inside loops
LoopEdits ==
  [op : {"keep"},
   msgs : {<<>>, <<Assistant(text(<<"a">>))>>, <<Assistant(NullContent), ToolMsg>>}]

LoopModelOutcomes ==
  [kind : {"ok"}, edit : LoopEdits, memory : {"m0"}, error : {None}]
  \cup [kind : {"throw"}, edit : {[op |-> "keep", msgs |-> <<>>]},
        memory : {"m0"}, error : {"model_error"}]

IdleStep ==
  Activation([getUserInput |-> None, controller |-> None, nextSequence |-> None],
             [debug |-> FALSE],
             AgentState("s1", <<>>, None, NotHalted))

(***************************************************************************)
(* Sequence and runWorkflow (workflow.ts)                                  *)
(***************************************************************************)
Sequence(ctx, state, options) == [ctx |-> ctx, state |-> state, options |-> options]

\* What a nextSequence hook may return
NextStates ==
  {AgentState("s2", <<UserMessage(<<"u">>)>>, "m0", h) : h \in {NotHalted, Done}}
NextOutcomes ==
  [kind : {"ok"},
   ctx : {AgentContext(g, None, n) : g \in {None, "input2"}, n \in {None, "next2"}},
   state : NextStates,
   options : {SequenceOptions(m, p) : m \in {Unset, 1}, p \in BOOLEAN}]
  \cup [kind : {"throw"}, ctx : {AgentContext(None, None, None)},
        state : {AgentState("s2", <<>>, None, NotHalted)},
        options : {SequenceOptions(Unset, FALSE)}]

\* Variant: the successor's budget is the one its own options set, if any
mergeOptionsOwnBudget(options, nextOpts) ==
  [maxSteps |-> nextOpts.maxSteps,
   preserveInput |-> nextOpts.preserveInput \/ options.preserveInput,
   debug |-> options.debug,
   observers |-> [f \in DOMAIN options.observers |->
                    nextOpts.observers[f] \/ options.observers[f]]]

\* { ...this.options, ...nextOpts }
mergeOptions(options, nextOpts) ==
  [maxSteps |-> IF nextOpts.maxSteps # Unset THEN nextOpts.maxSteps
                ELSE options.maxSteps,
   preserveInput |-> nextOpts.preserveInput \/ options.preserveInput,
   debug |-> options.debug,
   observers |-> [f \in DOMAIN options.observers |->
                    nextOpts.observers[f] \/ options.observers[f]]]

\* Variant: the current hook, when preserved, wins over the new stage's own
mergeContextKeepsCurrent(ctx, nextCtx, nextOpts) ==
  LET preserved == IF nextOpts.preserveInput THEN ctx.getUserInput ELSE None
  IN [nextCtx EXCEPT !.getUserInput =
        IF preserved # None THEN preserved ELSE nextCtx.getUserInput]

\* { ...nextCtx, getUserInput: nextCtx.getUserInput ?? preserved }
mergeContext(ctx, nextCtx, nextOpts) ==
  LET preserved == IF nextOpts.preserveInput THEN ctx.getUserInput ELSE None
  IN [nextCtx EXCEPT !.getUserInput =
        IF nextCtx.getUserInput # None THEN nextCtx.getUserInput ELSE preserved]

\* Variant: a run that ended Stopped chains as well
chainsOnStopped(ctx, terminal) ==
  /\ terminal.halted.kind \in {DoneKind, StoppedKind}
  /\ ctx.nextSequence # None

\* Sequence.next after run() returned `terminal`: does it chain?
chains(ctx, terminal) ==
  terminal.halted.kind = DoneKind /\ ctx.nextSequence # None

\* What one call of Sequence.next returned to runWorkflow: the receiver, the
\* Sequence returned and the terminal state
Returned(from, to, terminal) == [from |-> from, to |-> to, terminal |-> terminal]
\* The same for a chaining call, with the contract and the options that
\* nextSequence returned, and what it supplied for the successor's input hook
Chained(from, to, terminal, n) ==
  [from |-> from, to |-> to, terminal |-> terminal,
   nextInput |-> n.ctx.getUserInput, preserveInput |-> n.options.preserveInput,
   nextCtx |-> n.ctx, nextOpts |-> n.options]

WfInitLists == {<<>>, <<UserMessage(<<"u">>)>>,
                <<UserMessage(<<"u">>), Assistant(text(<<"a">>))>>}
WfInitStates ==
  {AgentState("s1", m, "m0", h) : m \in WfInitLists, h \in Halts}
WfContexts ==
  {AgentContext(g, c, n) :
     g \in {None, "input1"}, c \in {None, "ctl1"}, n \in {None, "next1"}}
WfOptions ==
  {SequenceOptions(m, FALSE) : m \in (0..MaxBudget) \cup {Unset}}

Init ==
  /\ seqs \in {<<Sequence(c, st, op)>> :
                 c \in WfContexts, st \in WfInitStates, op \in WfOptions}
  /\ history = <<1>>
  /\ current = 1
  /\ wf = [pc |-> "running", final |-> seqs[1].state, history |-> <<>>,
           nexts |-> <<>>, error |-> None, onSequenceChange |-> FALSE]
  /\ loop = startLoop(seqs[1].state, seqs[1].options)
  /\ observed = NotObserved
  /\ step = IdleStep
  /\ PatchIdle /\ ToolIdle /\ ChatIdle

AtHead == wf.pc = "running" /\ loop.pc = "head"

\* The observers of the running loop
Observers == seqs[current].options.observers

\* An observer called by loopAgent throws: loopAgent, Sequence.next and
\* runWorkflow reject
ObserverThrows(state) ==
  /\ loop' = [loop EXCEPT !.pc = "thrown", !.state = state,
                          !.finished = loop.steps, !.error = ObserverError]
  /\ wf' = [wf EXCEPT !.pc = "thrown", !.error = ObserverError]
  /\ step' = IdleStep

\* onStateChange is called; loopAgent finds the state Done or Stopped and
\* returns it
\* (o: what the call of onStateChange does)
LoopReturnWith(o) ==
  /\ AtHead
  /\ loopHead(loop.state, loop.remaining) = "return"
  /\ IF o = "throw"
       THEN ObserverThrows(loop.state)
       ELSE /\ loop' = [loop EXCEPT !.pc = "returned", !.result = loop.state]
            /\ UNCHANGED <<wf, step>>
  /\ UNCHANGED <<seqs, history, current, patchVars, chatVars, toolVars>>

\* Variant: a terminal state is returned before onStateChange is called
LoopReturnUnobserved ==
  /\ LoopReturnWith("absent")
  /\ UNCHANGED observed

LoopReturn ==
  \E o \in notify(Observers.onStateChange) :
    /\ LoopReturnWith(o)
    /\ observed' = see(observed, "onStateChange", o, loop.state)

\* Variant: with the budget spent the state is returned as it is
LoopStopUnforced ==
  /\ AtHead
  /\ loopHead(loop.state, loop.remaining) = "stop"
  /\ loop' = [loop EXCEPT !.pc = "returned", !.result = loop.state]
  /\ UNCHANGED <<seqs, history, current, wf, step, observed, patchVars, chatVars, toolVars>>

\* onStateChange is called; loopAgent finds the budget spent and returns the
\* state forced to Stopped
\* (o: what the call of onStateChange does)
LoopStopWith(o) ==
  /\ AtHead
  /\ loopHead(loop.state, loop.remaining) = "stop"
  /\ IF o = "throw"
       THEN ObserverThrows(loop.state)
       ELSE /\ loop' = [loop EXCEPT !.pc = "returned",
                          !.result = [loop.state EXCEPT !.halted = Stopped]]
            /\ UNCHANGED <<wf, step>>
  /\ UNCHANGED <<seqs, history, current, patchVars, chatVars, toolVars>>

LoopStop ==
  \E o \in notify(Observers.onStateChange) :
    /\ LoopStopWith(o)
    /\ observed' = see(observed, "onStateChange", o, loop.state)

\* Variant: loopAgent does not await stepAgent before its next iteration
LoopStepWithoutAwait(o, p) ==
  /\ AtHead
  /\ loopHead(loop.state, loop.remaining) = "step"
  /\ loop.remaining = Infinity => loop.steps < StepCap
  /\ IF o = "throw" \/ p = "throw"
       THEN ObserverThrows(loop.state)
       ELSE /\ step' = enter(Activation(seqs[current].ctx,
                                        [debug |-> seqs[current].options.debug],
                                        loop.state))
            /\ loop' = [loop EXCEPT !.pc = "head", !.steps = @ + 1,
                          !.modelCalls = IF step'.pc = "model" THEN @ + 1 ELSE @]
            /\ UNCHANGED wf
  /\ UNCHANGED <<seqs, history, current, patchVars, chatVars, toolVars>>

\* Variant: every step is given the state the loop started from
LoopStepWithInitialState(o, p) ==
  /\ AtHead
  /\ loopHead(loop.state, loop.remaining) = "step"
  /\ loop.remaining = Infinity => loop.steps < StepCap
  /\ IF o = "throw" \/ p = "throw"
       THEN ObserverThrows(loop.state)
       ELSE /\ step' = enter(Activation(seqs[current].ctx,
                                        [debug |-> seqs[current].options.debug],
                                        loop.init))
            /\ loop' = [loop EXCEPT !.pc = "stepping", !.steps = @ + 1,
                          !.modelCalls = IF step'.pc = "model" THEN @ + 1 ELSE @]
            /\ UNCHANGED wf
  /\ UNCHANGED <<seqs, history, current, patchVars, chatVars, toolVars>>

\* onStateChange and onStart are called; loopAgent calls
\* stepAgent(ctx, state, ...), which runs to its first await
\* (o, p: what the calls of onStateChange and of onStart do)
LoopStepWith(o, p) ==
  /\ AtHead
  /\ loopHead(loop.state, loop.remaining) = "step"
  /\ loop.remaining = Infinity => loop.steps < StepCap
  /\ IF o = "throw" \/ p = "throw"
       THEN ObserverThrows(loop.state)
       ELSE /\ step' = enter(Activation(seqs[current].ctx,
                                        [debug |-> seqs[current].options.debug],
                                        loop.state))
            /\ loop' = [loop EXCEPT !.pc = "stepping", !.steps = @ + 1,
                          !.modelCalls = IF step'.pc = "model" THEN @ + 1 ELSE @]
            /\ UNCHANGED wf
  /\ UNCHANGED <<seqs, history, current, patchVars, chatVars, toolVars>>

LoopStep ==
  \E o \in notify(Observers.onStateChange), p \in notify(Observers.onStart) :
    /\ LoopStepWith(o, p)
    /\ observed' =
         IF o = "throw" THEN see(observed, "onStateChange", o, loop.state)
         ELSE see(see(observed, "onStateChange", o, loop.state),
                  "onStart", p, loop.state)

\* The model call of the running step settles
ModelSettles ==
  /\ wf.pc = "running"
  /\ step.pc = "model"
  /\ \E m \in LoopModelOutcomes :
       /\ step' = onModel(step, m)
       /\ Len(step'.new.messages) <= MaxMsgs
  /\ UNCHANGED Others

\* Variant: the budget is decremented only when no onStop observer is installed
LoopResumeWithSkippedDecrement(o) ==
  /\ wf.pc = "running" /\ loop.pc = "stepping"
  /\ step.pc = "returned"
  /\ IF o = "throw"
       THEN ObserverThrows(step.out)
       ELSE /\ loop' = [loop EXCEPT !.pc = "head", !.state = step.out,
                          !.finished = @ + 1,
                          !.remaining = IF o = "absent" THEN decrement(@) ELSE @]
            /\ step' = IdleStep
            /\ UNCHANGED wf
  /\ UNCHANGED <<seqs, history, current, patchVars, chatVars, toolVars>>

\* stepAgent returned: state = result; onStop is called; remaining is
\* decremented
\* (o: what the call of onStop does)
LoopResumeWith(o) ==
  /\ wf.pc = "running" /\ loop.pc = "stepping"
  /\ step.pc = "returned"
  /\ IF o = "throw"
       THEN ObserverThrows(step.out)
       ELSE /\ loop' = [loop EXCEPT !.pc = "head", !.state = step.out,
                                    !.finished = @ + 1,
                                    !.remaining = decrement(@)]
            /\ step' = IdleStep
            /\ UNCHANGED wf
  /\ UNCHANGED <<seqs, history, current, patchVars, chatVars, toolVars>>

LoopResume ==
  \E o \in notify(Observers.onStop) :
    /\ LoopResumeWith(o)
    /\ observed' = see(observed, "onStop", o, step.out)

\* stepAgent threw: loopAgent, Sequence.next and runWorkflow reject
LoopThrow ==
  /\ wf.pc = "running" /\ loop.pc = "stepping"
  /\ step.pc = "thrown"
  /\ loop' = [loop EXCEPT !.pc = "thrown", !.finished = @ + 1,
                          !.error = step.error]
  /\ wf' = [wf EXCEPT !.pc = "thrown", !.error = step.error]
  /\ step' = IdleStep
  /\ UNCHANGED <<seqs, history, current, observed, patchVars, chatVars, toolVars>>

\* Variant: the final state is read from the Sequence before it is reset
WfFinishStale ==
  /\ wf.pc = "running" /\ loop.pc = "returned"
  /\ ~chains(seqs[current].ctx, loop.result)
  /\ seqs' = [seqs EXCEPT ![current].state = loop.result]
  /\ wf' = [wf EXCEPT !.pc = "returned", !.final = seqs[current].state,
              !.history = history,
              !.nexts = Append(@, Returned(current, current, loop.result))]
  /\ UNCHANGED <<history, current, loop, step, observed, patchVars, chatVars, toolVars>>

\* Sequence.next returns [this, terminal]; runWorkflow resets the state of
\* current, calls onSequenceChange and returns
WfFinishWith(installed) ==
  /\ wf.pc = "running" /\ loop.pc = "returned"
  /\ ~chains(seqs[current].ctx, loop.result)
  /\ seqs' = [seqs EXCEPT ![current].state = loop.result]
  /\ \E o \in notify(installed) :
       wf' = IF o = "throw"
             THEN [wf EXCEPT !.pc = "thrown", !.error = ObserverError,
                     !.nexts = Append(@, Returned(current, current, loop.result))]
             ELSE [wf EXCEPT !.pc = "returned", !.final = loop.result,
                     !.history = history,
                     !.nexts = Append(@, Returned(current, current, loop.result))]
  /\ UNCHANGED <<history, current, loop, step, observed, patchVars, chatVars, toolVars>>

WfFinish == WfFinishWith(wf.onSequenceChange)

\* Variant: Sequence.next puts the successor's contract, state and options
\* into the receiver and returns the receiver
WfChainInPlace ==
  /\ wf.pc = "running" /\ loop.pc = "returned"
  /\ chains(seqs[current].ctx, loop.result)
  /\ Len(seqs) < MaxStages
  /\ \E n \in NextOutcomes :
       IF n.kind = "throw"
       THEN /\ wf' = [wf EXCEPT !.pc = "thrown", !.error = "nextSequence_error"]
            /\ UNCHANGED <<seqs, history, current, loop, observed>>
       ELSE LET this == seqs[current]
                next == Sequence(mergeContext(this.ctx, n.ctx, n.options),
                                 loop.result,
                                 mergeOptions(this.options, n.options))
            IN /\ seqs' = [seqs EXCEPT ![current] = next]
               /\ wf' = [wf EXCEPT !.pc = "returned", !.final = loop.result,
                           !.history = history,
                           !.nexts = Append(@, Chained(current, current,
                                                       loop.result, n))]
               /\ UNCHANGED <<history, current, loop>>
  /\ UNCHANGED <<step, observed, patchVars, chatVars, toolVars>>

\* Variant: the state of current is not reset before the successor runs
WfChainNoReset ==
  /\ wf.pc = "running" /\ loop.pc = "returned"
  /\ chains(seqs[current].ctx, loop.result)
  /\ Len(seqs) < MaxStages
  /\ \E n \in NextOutcomes :
       IF n.kind = "throw"
       THEN /\ wf' = [wf EXCEPT !.pc = "thrown", !.error = "nextSequence_error"]
            /\ UNCHANGED <<seqs, history, current, loop, observed>>
       ELSE LET this == seqs[current]
                next == Sequence(mergeContext(this.ctx, n.ctx, n.options),
                                 n.state,
                                 mergeOptions(this.options, n.options))
            IN /\ seqs' = Append(seqs, next)
               /\ current' = Len(seqs) + 1
               /\ history' = Append(history, Len(seqs) + 1)
               /\ loop' = startLoop(next.state, next.options)
               /\ observed' = NotObserved
               /\ wf' = [wf EXCEPT !.nexts =
                           Append(@, Chained(current, Len(seqs) + 1,
                                             loop.result, n))]
  /\ UNCHANGED <<step, patchVars, chatVars, toolVars>>

\* Sequence.next calls nextSequence and returns a new Sequence; runWorkflow
\* resets the state of current, calls onSequenceChange, makes the new Sequence
\* current, pushes it and starts its run.  A throwing nextSequence rejects
\* next and runWorkflow.
WfChainWith(installed) ==
  /\ wf.pc = "running" /\ loop.pc = "returned"
  /\ chains(seqs[current].ctx, loop.result)
  /\ Len(seqs) < MaxStages
  /\ \E n \in NextOutcomes :
       IF n.kind = "throw"
       THEN /\ wf' = [wf EXCEPT !.pc = "thrown", !.error = "nextSequence_error"]
            /\ UNCHANGED <<seqs, history, current, loop, observed>>
       ELSE LET this == seqs[current]
                next == Sequence(mergeContext(this.ctx, n.ctx, n.options),
                                 n.state,
                                 mergeOptions(this.options, n.options))
                call == Chained(current, Len(seqs) + 1, loop.result, n)
            IN /\ seqs' = Append([seqs EXCEPT ![current].state = loop.result],
                                 next)
               /\ \E o \in notify(installed) :
                    IF o = "throw"
                    THEN /\ wf' = [wf EXCEPT !.pc = "thrown",
                                     !.error = ObserverError,
                                     !.nexts = Append(@, call)]
                         /\ UNCHANGED <<history, current, loop, observed>>
                    ELSE /\ current' = Len(seqs) + 1
                         /\ history' = Append(history, Len(seqs) + 1)
                         /\ loop' = startLoop(next.state, next.options)
                         /\ observed' = NotObserved
                         /\ wf' = [wf EXCEPT !.nexts = Append(@, call)]
  /\ UNCHANGED <<step, patchVars, chatVars, toolVars>>

WfChain == WfChainWith(wf.onSequenceChange)

Next ==
  \/ LoopReturn \/ LoopStop \/ LoopStep \/ ModelSettles \/ Settles
  \/ LoopResume \/ LoopThrow \/ WfFinish \/ WfChain

Spec == Init /\ [][Next]_vars

(***************************************************************************)
(* SpecObs: runWorkflow with the observers installed                       *)
(***************************************************************************)
ObsContexts ==
  {AgentContext(g, c, n) :
     g \in {None, "input1"}, c \in {None, "ctl1"}, n \in {None, "next1"}}
ObsOptions ==
  {[SequenceOptions(m, FALSE) EXCEPT !.observers = AllObservers] :
     m \in {1, MaxBudget, Unset}}
ObsStates ==
  {AgentState("s1", <<UserMessage(<<"u">>)>>, "m0", h) :
     h \in {NotHalted, awaitUser, Done}}

InitObs ==
  /\ seqs \in {<<Sequence(c, st, op)>> :
                 c \in ObsContexts, st \in ObsStates, op \in ObsOptions}
  /\ history = <<1>>
  /\ current = 1
  /\ wf = [pc |-> "running", final |-> seqs[1].state, history |-> <<>>,
           nexts |-> <<>>, error |-> None, onSequenceChange |-> TRUE]
  /\ loop = startLoop(seqs[1].state, seqs[1].options)
  /\ observed = NotObserved
  /\ step = IdleStep
  /\ PatchIdle /\ ToolIdle /\ ChatIdle

SpecObs == InitObs /\ [][Next]_vars

(***************************************************************************)
(* SpecLive: runWorkflow with finite budgets, hooks that return and        *)
(* finitely many successors, every settled await being resumed             *)
(***************************************************************************)
\* Largest budget of a stage under which a transcript that starts with at
\* most one message stays within MaxMsgs
LiveBudget == (MaxMsgs + 1) \div 2

InitLive ==
  /\ seqs \in {<<Sequence(c, AgentState("s1", m, "m0", h),
                          SequenceOptions(b, FALSE))>> :
                 c \in WfContexts, m \in {<<>>, <<UserMessage(<<"u">>)>>},
                 h \in Halts, b \in 0..LiveBudget}
  /\ history = <<1>>
  /\ current = 1
  /\ wf = [pc |-> "running", final |-> seqs[1].state, history |-> <<>>,
           nexts |-> <<>>, error |-> None, onSequenceChange |-> FALSE]
  /\ loop = startLoop(seqs[1].state, seqs[1].options)
  /\ observed = NotObserved
  /\ step = IdleStep
  /\ PatchIdle /\ ToolIdle /\ ChatIdle

\* getUserInput, the controller, the classifier, isFinal and nextSequence
\* return: none of them throws
HooksReturn ==
  /\ step'.calls # <<>> =>
       \/ step'.calls[Len(step'.calls)].fn = "model"
       \/ step'.calls[Len(step'.calls)].ans # "throw"
  /\ wf'.error # "nextSequence_error"

\* Only finitely many stages produce a successor: the last Sequence the
\* workflow may create has no nextSequence hook
FinitelyManyStages ==
  Len(seqs') = MaxStages => seqs'[MaxStages].ctx.nextSequence = None

Live == HooksReturn /\ FinitelyManyStages

NextLive ==
  \/ LoopReturn /\ Live
  \/ LoopStop /\ Live
  \/ LoopStep /\ Live
  \/ ModelSettles /\ Live
  \/ GetUserInputSettles /\ Live
  \/ ControllerSettles /\ Live
  \/ RequestsInputSettles /\ Live
  \/ IsFinalSettles /\ Live
  \/ LoopResume /\ Live
  \/ LoopThrow /\ Live
  \/ WfFinish /\ Live
  \/ WfChain /\ Live

\* A promise that has settled resumes the function awaiting it, and every
\* call of a hook or of the model settles
SpecLive == InitLive /\ [][NextLive]_vars /\ WF_vars(NextLive)

\* The steps of the same run with no observer installed
BareNext ==
  \/ LoopReturnWith("absent") \/ LoopStopWith("absent")
  \/ LoopStepWith("absent", "absent") \/ ModelSettles \/ Settles
  \/ LoopResumeWith("absent") \/ LoopThrow
  \/ WfFinishWith(FALSE) \/ WfChainWith(FALSE)

(***************************************************************************)
(* composePatches (tool.ts).  A memory is a function from its own keys to  *)
(* values; reading an absent key yields undefined.                         *)
(***************************************************************************)
Undefined == "undefined"
Keys      == {"x", "y"}
Values    == {"a", "b", Undefined}

ChatMemories == UNION {[D -> Values] : D \in SUBSET Keys}

\* memory[k]
Get(m, k) == IF k \in DOMAIN m THEN m[k] ELSE Undefined

\* Patches: (s) => ({...s, [key]: val}), (s) => s without key, (s) => s, and
\* an undefined entry of the list
Patches ==
  [op : {"set"}, key : Keys, val : Values]
  \cup [op : {"delete"}, key : Keys, val : {Undefined}]
  \cup [op : {"identity", "undefined"}, key : {"x"}, val : {Undefined}]

\* patch(acc)
applyPatch(patch, m) ==
  CASE patch.op = "set" ->
         [k \in DOMAIN m \cup {patch.key} |->
            IF k = patch.key THEN patch.val ELSE m[k]]
    [] patch.op = "delete" -> [k \in DOMAIN m \ {patch.key} |-> m[k]]
    [] OTHER -> m

\* Variant: only keys that did not exist before the patch count as written
writtenByNewKeysOnly(memory, before, after) ==
  {k \in DOMAIN after : k \notin DOMAIN before}

\* The keys the inner loop records as written by one patch:
\* !beforeKeys.includes(k) || acc[k] !== memory[k]
writtenBy(memory, before, after) ==
  {k \in DOMAIN after : k \notin DOMAIN before \/ after[k] # Get(memory, k)}

RECURSIVE composeFrom(_, _, _, _)
composeFrom(memory, patches, acc, written) ==
  IF patches = <<>>
    THEN [ret |-> "ok", memory |-> acc, written |-> written]
  ELSE IF Head(patches).op = "undefined"
    THEN composeFrom(memory, Tail(patches), acc, written)
  ELSE LET after == applyPatch(Head(patches), acc)
           keys  == writtenBy(memory, acc, after)
       IN IF keys \cap written # {}
            THEN [ret |-> "throw", memory |-> after,
                  written |-> keys \cap written]
            ELSE composeFrom(memory, Tail(patches), after, written \cup keys)

composePatches(memory, patches) == composeFrom(memory, patches, memory, {})

(***************************************************************************)
(* SpecPatch: composePatches applied to any base memory and patch list     *)
(***************************************************************************)
InitPatch ==
  /\ patchIn \in [memory : ChatMemories, patches : SeqsUpTo(Patches, MaxPatches)]
  /\ patchOut = [ret |-> None, memory |-> patchIn.memory, written |-> {}]
  /\ step = IdleStep
  /\ WfIdle /\ ToolIdle /\ ChatIdle

ComposePatches ==
  /\ patchOut.ret = None
  /\ patchOut' = composePatches(patchIn.memory, patchIn.patches)
  /\ UNCHANGED <<patchIn, step, wfVars, toolVars, chatVars>>

NextPatch == ComposePatches

SpecPatch == InitPatch /\ [][NextPatch]_vars

(***************************************************************************)
(* ToolRegistry (tool.ts), serveMCP's tool list (mcpServer.ts) and         *)
(* MCPClient.listTools / tool / registeredTool (mcpClient.ts)              *)
(***************************************************************************)
ToolNames  == {"echo", "ghost"}
\* A registry entry is a RegisteredTool or a lazy loader returning one
EntryKinds == {"tool", "loader"}
Registries == UNION {[D -> EntryKinds] : D \in SUBSET ToolNames}

\* What a handler may do with (args, memory): answer, write to the memory
\* object it was handed and answer, or throw
HandlerOutcomes == {"content", "mutate", "throw"}
NoMemory        == [x |-> "a"]
CallerMemories  == {[x |-> "a"], [y |-> "b"]}

ToolOutcome(n, op, name, ret, error, passed, memory, list) ==
  [n |-> n, op |-> op, name |-> name, ret |-> ret, error |-> error,
   passed |-> passed, memory |-> memory, list |-> list]

\* Variant: a missing entry yields an empty response instead of an error
callMissingIsEmpty(reg, name, memory, h) ==
  IF name \notin DOMAIN reg
  THEN [ret |-> "ok", error |-> None, runs |-> 0, memory |-> memory]
  ELSE [ret |-> IF h = "throw" THEN "throw" ELSE "ok",
        error |-> IF h = "throw" THEN "handler_error" ELSE None,
        runs |-> 1,
        memory |-> IF h = "mutate"
                   THEN [k \in DOMAIN memory \cup {"x"} |-> "b"] ELSE memory]

\* ToolRegistry.call(name, args, memory)
call(reg, name, memory, h) ==
  IF name \notin DOMAIN reg
  THEN [ret |-> "throw", error |-> "Tool not found", runs |-> 0,
        memory |-> memory]
  ELSE [ret |-> IF h = "throw" THEN "throw" ELSE "ok",
        error |-> IF h = "throw" THEN "handler_error" ELSE None,
        runs |-> 1,
        memory |-> IF h = "mutate"
                   THEN [k \in DOMAIN memory \cup {"x"} |-> "b"] ELSE memory]

\* private readonly _duration = 5 * 60 * 1000, in minutes
Duration == 5

\* A promise returned by _fetchTools
PendingFetch == [status |-> "pending", tools |-> {}]

\* Variant: the cached list is dropped once it is 5 minutes old
expiredAtDuration(client, t) ==
  client.cache = 0 \/ t - client.timestamp >= Duration

\* if (!this._cache || now - this._timestamp > this._duration)
expired(client, t) == client.cache = 0 \/ t - client.timestamp > Duration

\* Variant: a cached fetch that has failed is not kept
listToolsRetriesFailure(client, t) ==
  IF expired(client, t) \/ client.promises[client.cache].status = "failed"
  THEN [client EXCEPT !.timestamp = t,
                      !.promises = Append(@, PendingFetch),
                      !.cache = Len(client.promises) + 1]
  ELSE client

\* listTools up to `return this._cache`
listTools(client, t) ==
  IF expired(client, t)
  THEN [client EXCEPT !.timestamp = t,
                      !.promises = Append(@, PendingFetch),
                      !.cache = Len(client.promises) + 1]
  ELSE client

\* registeredTool once the list promise has settled:
\* all.find(tool => tool.function.name === name), throw when not found
found(promise, name) ==
  IF promise.status = "failed"
    THEN [ret |-> "throw", error |-> "Failed to list tools"]
  ELSE IF name \notin promise.tools
    THEN [ret |-> "throw", error |-> "Tool not found"]
  ELSE [ret |-> "ok", error |-> None]

\* new MCPClient(baseURL): no cached list, no request sent
NewClient ==
  [cache |-> 0, timestamp |-> 0, promises |-> <<>>, waiting |-> {},
   posts |-> <<>>]

\* A POST /v1/tool-call the client has sent and the server has not answered
Post(name) == [name |-> name, status |-> 0, error |-> None, settled |-> FALSE]

\* Variant: a failing tool call falls through to the 404 answer
toolCallResponseNotFound(reg, name, h) ==
  LET r == call(reg, name, NoMemory, h)
  IN IF r.ret = "throw"
       THEN [status |-> 404, error |-> None, runs |-> r.runs]
       ELSE [status |-> 200, error |-> None, runs |-> r.runs]

\* serveMCP, POST /v1/tool-call: the result of toolRegistry.call as JSON, or
\* status 500 with {error: String(err)} when the call throws
toolCallResponse(reg, name, h) ==
  LET r == call(reg, name, NoMemory, h)
  IN IF r.ret = "throw"
       THEN [status |-> 500, error |-> r.error, runs |-> r.runs]
       ELSE [status |-> 200, error |-> None, runs |-> r.runs]

\* Variant: callTool hands back whatever body the server sent
callToolSettlesUnchecked(post) == [ret |-> "ok", error |-> None]

\* MCPClient.callTool once the response is there:
\* if (!res.ok) throw new Error(`Tool call failed: ...`)
callToolSettles(post) ==
  IF post.status < 200 \/ post.status > 299
    THEN [ret |-> "throw", error |-> "Tool call failed"]
    ELSE [ret |-> "ok", error |-> None]

(***************************************************************************)
(* SpecTools                                                               *)
(***************************************************************************)
InitTools ==
  /\ registry \in Registries
  /\ handlerRuns = 0
  /\ toolOut = ToolOutcome(0, None, "echo", None, None, NoMemory, NoMemory, {})
  /\ mcp = NewClient
  /\ now = 0
  /\ step = IdleStep
  /\ WfIdle /\ PatchIdle /\ ChatIdle

Rest == <<step, wfVars, patchVars, chatVars>>

\* registry.add(reg)
Add ==
  /\ \E name \in ToolNames, kind \in EntryKinds :
       registry' = [k \in DOMAIN registry \cup {name} |->
                      IF k = name THEN kind ELSE registry[k]]
  /\ UNCHANGED <<handlerRuns, toolOut, mcp, now, Rest>>

\* registry.remove(name)
Remove ==
  /\ \E name \in DOMAIN registry :
       registry' = [k \in DOMAIN registry \ {name} |-> registry[k]]
  /\ UNCHANGED <<handlerRuns, toolOut, mcp, now, Rest>>

\* registry.call(name, args, memory)
RegistryCall ==
  /\ toolOut.n < MaxCalls
  /\ \E name \in ToolNames, memory \in CallerMemories, h \in HandlerOutcomes :
       LET r == call(registry, name, memory, h)
       IN /\ toolOut' = ToolOutcome(toolOut.n + 1, "call", name, r.ret, r.error,
                                    memory, r.memory, {})
          /\ handlerRuns' = handlerRuns + r.runs
  /\ UNCHANGED <<registry, mcp, now, Rest>>

\* Date.now() advances
Tick ==
  /\ \E t \in (now + 1)..MaxNow : now' = t
  /\ UNCHANGED <<registry, handlerRuns, toolOut, mcp, Rest>>

\* client.registeredTool(name): listTools runs; when the list promise is
\* already settled the lookup completes, otherwise the call waits for it
RegisteredTool ==
  /\ toolOut.n < MaxCalls
  /\ \E name \in ToolNames :
       LET client == listTools(mcp, now)
           p      == client.cache
       IN /\ Len(client.promises) <= MaxFetches
          /\ IF client.promises[p].status = "pending"
             THEN /\ mcp' = [client EXCEPT !.waiting = @ \cup {<<name, p>>}]
                  /\ UNCHANGED toolOut
             ELSE /\ mcp' = client
                  /\ toolOut' =
                       LET r == found(client.promises[p], name)
                       IN ToolOutcome(toolOut.n + 1, "registeredTool", name,
                                      r.ret, r.error, NoMemory, NoMemory,
                                      client.promises[p].tools)
  /\ UNCHANGED <<registry, handlerRuns, now, Rest>>

\* The server answers GET /v1/tools with the registry's current list, or the
\* request fails
FetchSettles ==
  /\ \E p \in 1..Len(mcp.promises) :
       /\ mcp.promises[p].status = "pending"
       /\ \E outcome \in {"ok", "failed"} :
            mcp' = [mcp EXCEPT !.promises[p] =
                      IF outcome = "ok"
                      THEN [status |-> "ok", tools |-> DOMAIN registry]
                      ELSE [status |-> "failed", tools |-> {}]]
  /\ UNCHANGED <<registry, handlerRuns, toolOut, now, Rest>>

\* A waiting registeredTool call resumes on its settled list promise
RegisteredToolResumes ==
  /\ \E w \in mcp.waiting :
       /\ mcp.promises[w[2]].status # "pending"
       /\ mcp' = [mcp EXCEPT !.waiting = @ \ {w}]
       /\ toolOut' =
            LET r == found(mcp.promises[w[2]], w[1])
            IN ToolOutcome(toolOut.n + 1, "registeredTool", w[1], r.ret, r.error,
                           NoMemory, NoMemory, mcp.promises[w[2]].tools)
  /\ UNCHANGED <<registry, handlerRuns, now, Rest>>

NextTools ==
  \/ Add \/ Remove \/ RegistryCall \/ Tick
  \/ RegisteredTool \/ FetchSettles \/ RegisteredToolResumes

SpecTools == InitTools /\ [][NextTools]_vars

(***************************************************************************)
(* SpecMCP: MCPClient.callTool against serveMCP                            *)
(***************************************************************************)
InitMCP == InitTools

\* client.callTool(name, input, memory) sends its request
CallTool ==
  /\ Len(mcp.posts) < MaxPosts
  /\ \E name \in ToolNames :
       mcp' = [mcp EXCEPT !.posts = Append(@, Post(name))]
  /\ UNCHANGED <<registry, handlerRuns, toolOut, now, Rest>>

\* The server answers a tool call
ServeToolCall ==
  /\ \E i \in 1..Len(mcp.posts), h \in HandlerOutcomes :
       /\ mcp.posts[i].status = 0
       /\ LET res == toolCallResponse(registry, mcp.posts[i].name, h)
          IN /\ mcp' = [mcp EXCEPT !.posts[i].status = res.status,
                                   !.posts[i].error = res.error]
             /\ handlerRuns' = handlerRuns + res.runs
  /\ UNCHANGED <<registry, toolOut, now, Rest>>

\* callTool resumes on the response
CallToolSettles ==
  /\ \E i \in 1..Len(mcp.posts) :
       /\ mcp.posts[i].status # 0
       /\ ~mcp.posts[i].settled
       /\ mcp' = [mcp EXCEPT !.posts[i].settled = TRUE]
       /\ toolOut' =
            LET r == callToolSettles(mcp.posts[i])
            IN ToolOutcome(toolOut.n + 1, "callTool", mcp.posts[i].name, r.ret,
                           r.error, NoMemory, NoMemory, {})
  /\ UNCHANGED <<registry, handlerRuns, now, Rest>>

NextMCP == Add \/ Remove \/ CallTool \/ ServeToolCall \/ CallToolSettles

SpecMCP == InitMCP /\ [][NextMCP]_vars

(***************************************************************************)
(* ChatModel (model.ts): invoke and stop.  abortCtl is 0 (null) or the     *)
(* request whose AbortController is registered.  A request waits for its   *)
(* response ("fetch"), then for its body: res.text() of an error response  *)
(* ("text"), res.json() ("json") or the reads of a streamed body           *)
(* ("reading"); it ends "done" when invoke returns and "failed" when it    *)
(* throws.                                                                 *)
(***************************************************************************)
Request == [phase |-> "fetch", aborted |-> FALSE]
Unread  == {"fetch", "text", "json", "reading"}

\* controller.abort(): the request of that controller is aborted if its
\* response has not been fully read
abort(reqs, c) ==
  IF c # 0 /\ reqs[c].phase \in Unread
    THEN [reqs EXCEPT ![c].aborted = TRUE]
    ELSE reqs

\* invoke up to `await fetch(...)`
invoke(m) ==
  [m EXCEPT !.reqs = Append(abort(m.reqs, m.abortCtl), Request),
            !.abortCtl = Len(m.reqs) + 1]

\* invoke from the response to the next await
onResponse(m, i, ok) ==
  IF ~ok
    THEN [m EXCEPT !.abortCtl = 0, !.reqs[i].phase = "text"]
  ELSE IF ~m.stream
    THEN [m EXCEPT !.abortCtl = 0, !.reqs[i].phase = "json"]
  ELSE [m EXCEPT !.reqs[i].phase = "reading"]

\* invoke once the body has been read, or reading it has failed
onBody(m, i, ok) ==
  LET ended == IF ok /\ m.reqs[i].phase # "text" THEN "done" ELSE "failed"
  IN IF m.reqs[i].phase = "reading"
       THEN [m EXCEPT !.abortCtl = 0, !.reqs[i].phase = ended]
       ELSE [m EXCEPT !.reqs[i].phase = ended]

\* stop = async () => { if (this.abortCtl) { abort(); this.abortCtl = null } }
stop(m) ==
  IF m.abortCtl # 0
    THEN [m EXCEPT !.reqs = abort(m.reqs, m.abortCtl), !.abortCtl = 0]
    ELSE m

(***************************************************************************)
(* SpecChat: one ChatModel, its callers and its transport                  *)
(***************************************************************************)
InitChat ==
  /\ chat \in {NewChatModel(stream) : stream \in BOOLEAN}
  /\ step = IdleStep
  /\ WfIdle /\ PatchIdle /\ ToolIdle

NotChat == <<step, wfVars, patchVars, toolVars>>

\* model.complete(...) calls invoke
Invoke ==
  /\ Len(chat.reqs) < MaxRequests
  /\ chat' = invoke(chat)
  /\ UNCHANGED NotChat

\* The response of a request that was not aborted arrives
ResponseArrives ==
  /\ \E i \in 1..Len(chat.reqs), ok \in BOOLEAN :
       /\ chat.reqs[i].phase = "fetch"
       /\ ~chat.reqs[i].aborted
       /\ chat' = onResponse(chat, i, ok)
  /\ UNCHANGED NotChat

\* fetch rejects (the request was aborted, or the transport failed): invoke
\* throws
FetchRejects ==
  /\ \E i \in 1..Len(chat.reqs) :
       /\ chat.reqs[i].phase = "fetch"
       /\ chat' = [chat EXCEPT !.reqs[i].phase = "failed"]
  /\ UNCHANGED NotChat

\* The body of a request that was not aborted has been read
BodyRead ==
  /\ \E i \in 1..Len(chat.reqs) :
       /\ chat.reqs[i].phase \in {"text", "json", "reading"}
       /\ ~chat.reqs[i].aborted
       /\ chat' = onBody(chat, i, TRUE)
  /\ UNCHANGED NotChat

\* Reading the body rejects (the request was aborted, or the transport failed)
BodyRejects ==
  /\ \E i \in 1..Len(chat.reqs) :
       /\ chat.reqs[i].phase \in {"text", "json", "reading"}
       /\ chat' = onBody(chat, i, FALSE)
  /\ UNCHANGED NotChat

\* model.stop() is called (by Sequence.stop or directly)
Stop ==
  /\ chat.stops < MaxStops
  /\ chat' = [stop(chat) EXCEPT !.stops = @ + 1]
  /\ UNCHANGED NotChat

NextChat ==
  \/ Invoke \/ ResponseArrives \/ FetchRejects \/ BodyRead \/ BodyRejects
  \/ Stop

SpecChat == InitChat /\ [][NextChat]_vars

(***************************************************************************)
(* Properties of one step (SpecStep)                                       *)
(***************************************************************************)
Called        == step.pc # "idle"
Terminal(s)   == s.halted.kind \in {DoneKind, StoppedKind}
CalledFns     == {step.calls[i].fn : i \in 1..Len(step.calls)}

\* The model was called on the input state and has returned an output
ModelReturned ==
  /\ step.calls # <<>>
  /\ step.calls[1].fn = "model"
  /\ step.calls[1].arg = step.in
  /\ step.calls[1].ans = "ok"
ModelOutput  == step.calls[1].res
UpdatedState ==
  [step.in EXCEPT !.messages = ModelOutput.messages, !.memory = ModelOutput.memory]

\* The controller is the only call made after the model call, it was given s,
\* and the step settles exactly as the controller does
ControllerDecided(s) ==
  /\ Len(step.calls) = 2
  /\ step.calls[2].fn = "controller"
  /\ step.calls[2].arg = s
  /\ step.calls[2].ans = "pending" => step.pc = "controller"
  /\ step.calls[2].ans = "ok" =>
       step.pc = "returned" /\ step.out = step.calls[2].res
  /\ step.calls[2].ans = "throw" => step.pc = "thrown"

Blank(c) ==
  \/ c.type = "null"
  \/ c.type = "text" /\ \A i \in 1..Len(c.text) : c.text[i] \in {" ", "\t", "\n"}

\* C1: a step on a state halted Done or Stopped returns a state equal to its
\* input, for every context and options, and calls no collaborator (model,
\* controller, getUserInput, isFinal, classifier).
C1_TerminalFixedPoint ==
  (Called /\ Terminal(step.in)) =>
    /\ step.pc = "returned"
    /\ step.out = step.in
    /\ step.calls = <<>>

C1_Witness ==
  /\ step.pc = "returned"
  /\ step.in.halted.kind = DoneKind
  /\ step.in.messages # <<>>
  /\ step.ctx.controller # None
  /\ step.ctx.getUserInput # None
  /\ step.options.debug

\* C3: with a controller configured, when the model returns a list of the same
\* length as the one it was given, the controller is invoked in that step with
\* the updated, non-halted state and the step returns the controller's result.
C3_SameLengthCallsController ==
  (/\ ModelReturned
   /\ step.ctx.controller # None
   /\ Len(ModelOutput.messages) = Len(step.in.messages)) =>
    /\ UpdatedState.halted = NotHalted
    /\ ControllerDecided(UpdatedState)

C3_Witness ==
  /\ ModelReturned
  /\ step.ctx.controller # None
  /\ Len(ModelOutput.messages) = Len(step.in.messages)
  /\ ModelOutput.messages # step.in.messages
  /\ step.pc = "returned"
  /\ Len(step.out.messages) = Len(step.in.messages) + 1

\* C4: with a controller configured, a model output whose last two messages
\* are both assistant messages with non-empty content is stuck (the controller
\* is invoked); a longer output ending with an assistant message followed by
\* a tool message is not stuck (the controller is not invoked).
C4_TwoAssistantsStuckToolNot ==
  (ModelReturned /\ step.ctx.controller # None /\ Len(ModelOutput.messages) > 1) =>
    LET m == ModelOutput.messages
        n == Len(m)
    IN /\ (/\ m[n].role = "assistant" /\ ~Blank(m[n].content)
           /\ m[n - 1].role = "assistant" /\ ~Blank(m[n - 1].content))
            => ControllerDecided(UpdatedState)
       /\ (/\ m[n].role = "tool"
           /\ m[n - 1].role = "assistant"
           /\ n > Len(step.in.messages))
            => /\ "controller" \notin CalledFns
               /\ step.pc = "returned"
               /\ step.out = UpdatedState

C4_Witness ==
  /\ ModelReturned
  /\ step.ctx.controller # None
  /\ Len(ModelOutput.messages) = 2
  /\ Len(step.in.messages) = 1
  /\ ModelOutput.messages[1].role = "assistant"
  /\ ModelOutput.messages[2].role = "assistant"
  /\ ~Blank(ModelOutput.messages[1].content)
  /\ ~Blank(ModelOutput.messages[2].content)
  /\ step.pc = "returned"
  /\ "controller" \in CalledFns

\* C5: with a controller configured, a model output ending with an assistant
\* message that has no content, or whose text is empty or whitespace-only, is
\* stuck: the controller is invoked with the state holding that message and
\* its result is returned.
C5_EmptyAssistantStuck ==
  (/\ ModelReturned
   /\ step.ctx.controller # None
   /\ ModelOutput.messages # <<>>
   /\ Last(ModelOutput.messages).role = "assistant"
   /\ Blank(Last(ModelOutput.messages).content)) =>
    /\ Last(UpdatedState.messages) = Last(ModelOutput.messages)
    /\ ControllerDecided(UpdatedState)

C5_Witness ==
  /\ ModelReturned
  /\ step.ctx.controller # None
  /\ Len(ModelOutput.messages) = Len(step.in.messages) + 1
  /\ Last(step.in.messages).role = "user"
  /\ Last(ModelOutput.messages) = Assistant(text(<<" ">>))
  /\ step.pc = "returned"
  /\ step.calls[2].fn = "controller"

\* C12: a step on a state halted AwaitUser, with a getUserInput hook, calls the
\* hook once on the input state and calls nothing else (the model is not
\* called); when the hook resolves, the step returns the input messages
\* followed by one user message holding the hook's text, with the halt status
\* cleared and id, model and memory unchanged.  The hook is called for no
\* state that is not halted AwaitUser.
C12_AwaitUserAppendsInput ==
  /\ (Called /\ step.in.halted.kind = AwaitUserKind
             /\ step.ctx.getUserInput # None) =>
       /\ Len(step.calls) = 1
       /\ step.calls[1].fn = "getUserInput"
       /\ step.calls[1].arg = step.in
       /\ step.calls[1].ans = "pending" => step.pc = "getUserInput"
       /\ step.calls[1].ans = "throw" => step.pc = "thrown"
       /\ step.calls[1].ans = "ok" =>
            /\ step.pc = "returned"
            /\ step.out.messages =
                 step.in.messages \o <<Message("user", text(step.calls[1].res))>>
            /\ step.out.halted = NotHalted
            /\ step.out.memory = step.in.memory
            /\ step.out.model = step.in.model
            /\ step.out.id = step.in.id
  /\ "getUserInput" \in CalledFns => step.in.halted.kind = AwaitUserKind

C12_Witness ==
  /\ step.pc = "returned"
  /\ step.in.halted = awaitUser
  /\ step.ctx.controller # None
  /\ step.in.memory # None
  /\ Len(step.in.messages) = 2
  /\ step.calls[1].fn = "getUserInput"
  /\ Len(step.out.messages) = 3
  /\ step.out.messages[3] = UserMessage(<<"i">>)
  /\ step.out.halted = NotHalted

\* The model was called on the input state and has thrown
ModelThrew ==
  /\ step.calls # <<>>
  /\ step.calls[1].fn = "model"
  /\ step.calls[1].arg = step.in
  /\ step.calls[1].ans = "throw"
ThrownError   == step.calls[1].res
HaltedByModel == [step.in EXCEPT !.halted = ToolError(ThrownError)]

\* C13: when the model call of a running state throws, the step does not throw
\* that error: it builds the input state with halt status ToolError carrying
\* the error (messages and memory unchanged); with a controller that state is
\* passed to the controller and the step settles as the controller does,
\* without a controller the halted state is returned.
C13_ModelFailureBecomesToolError ==
  ModelThrew =>
    /\ step.in.halted = NotHalted
    /\ HaltedByModel.halted.kind = ToolErrorKind
    /\ HaltedByModel.halted.error = ThrownError
    /\ step.error # ThrownError
    /\ step.ctx.controller # None => ControllerDecided(HaltedByModel)
    /\ step.ctx.controller = None =>
         /\ Len(step.calls) = 1
         /\ step.pc = "returned"
         /\ step.out = HaltedByModel
         /\ step.out.messages = step.in.messages
         /\ step.out.memory = step.in.memory

C13_Witness ==
  /\ ModelThrew
  /\ ThrownError = "tool_error"
  /\ step.ctx.controller = None
  /\ step.pc = "returned"
  /\ step.out.halted = ToolError("tool_error")
  /\ step.in.messages # <<>>

\* The three stuck conditions as C14 words them
StuckAsClaimed ==
  LET m == ModelOutput.messages
  IN \/ Len(m) <= Len(step.in.messages)
     \/ (m # <<>> /\ Last(m).role = "assistant" /\ Blank(Last(m).content))
     \/ (Len(m) > 1 /\ m[Len(m)].role = "assistant"
                    /\ m[Len(m) - 1].role = "assistant")

\* C14 as stated: a stuck step with no controller returns a state with no halt
\* status.
C14_Original ==
  (/\ ModelReturned
   /\ step.ctx.controller = None
   /\ StuckAsClaimed
   /\ step.pc = "returned") => step.out.halted = NotHalted

\* C14 (amended): a stuck step with no controller calls no recovery hook and
\* goes through the ordinary checks on the updated state: a last tool message
\* returns it running; otherwise a last message with content is given to the
\* classifier and the state is halted AwaitUser exactly when it answers yes;
\* otherwise a last assistant message is given to isFinal and the state is
\* halted Done exactly when it answers true; in every other case the updated
\* state is returned running.  It is never halted ToolError or Stopped.
C14_StuckWithoutControllerFallsThrough ==
  (ModelReturned /\ step.ctx.controller = None /\ StuckAsClaimed) =>
    LET last  == Last(ModelOutput.messages)
        final == step.calls[Len(step.calls)]
    IN /\ "controller" \notin CalledFns
       /\ last.role \in {"tool", "function"} =>
            /\ Len(step.calls) = 1
            /\ step.pc = "returned"
            /\ step.out = UpdatedState
       /\ (last.role \notin {"tool", "function"} /\ last.content # NullContent) =>
            /\ Len(step.calls) >= 2
            /\ step.calls[2].fn = "requestsInput"
       /\ (last.role = "assistant" /\ last.content = NullContent) =>
            /\ Len(step.calls) = 2
            /\ step.calls[2].fn = "isFinal"
       /\ step.pc = "returned" =>
            /\ step.out.halted \in {NotHalted, awaitUser, Done}
            /\ step.out = [UpdatedState EXCEPT !.halted = step.out.halted]
            /\ step.out.halted = awaitUser <=>
                 (final.fn = "requestsInput" /\ final.ans = "yes")
            /\ step.out.halted = Done <=>
                 (final.fn = "isFinal" /\ final.ans = "true")

C14_Witness ==
  /\ ModelReturned
  /\ step.ctx.controller = None
  /\ ModelOutput.messages # step.in.messages
  /\ Len(ModelOutput.messages) = Len(step.in.messages)
  /\ step.pc = "returned"
  /\ step.out.halted = Done
  /\ Len(step.calls) = 3

\* The step is not handed to the controller: none is configured, or the
\* output of the model is not stuck
NotResolved ==
  step.ctx.controller = None \/ ~isStuck(step.in, ModelOutput.messages)
EndsOnTool == Last(ModelOutput.messages).role \in {"tool", "function"}

\* C27: with a controller configured, a stuck step calls the controller on
\* the updated state, whose halt status the step has not set, right after the
\* model call and settles as the controller does; neither the classifier nor
\* isFinal is called, also when the last message is a tool message or an
\* assistant message isFinal could be asked about.
C27_StuckFirst ==
  (/\ ModelReturned
   /\ step.ctx.controller # None
   /\ isStuck(step.in, ModelOutput.messages)) =>
    /\ ControllerDecided(UpdatedState)
    /\ UpdatedState.halted = step.in.halted
    /\ CalledFns \subseteq {"model", "controller"}

C27_Witness ==
  /\ ModelReturned
  /\ step.ctx.controller # None
  /\ Len(ModelOutput.messages) = Len(step.in.messages)
  /\ ModelOutput.messages # step.in.messages
  /\ Last(ModelOutput.messages).role = "tool"
  /\ step.pc = "returned"
  /\ step.calls[2].fn = "controller"
  /\ step.out.halted = Done

\* C28: a step that is not handed to the controller and whose model output
\* ends on a message of role tool or function returns the updated state with
\* no halt status, and calls neither the classifier nor isFinal.
C28_ToolMessageReturnsRunning ==
  (ModelReturned /\ NotResolved /\ EndsOnTool) =>
    /\ Len(step.calls) = 1
    /\ step.pc = "returned"
    /\ step.out = UpdatedState
    /\ step.out.halted = NotHalted

C28_Witness ==
  /\ ModelReturned
  /\ step.ctx.controller # None
  /\ Last(ModelOutput.messages).role = "function"
  /\ Len(ModelOutput.messages) = Len(step.in.messages) + 1
  /\ step.pc = "returned"
  /\ step.out.halted = NotHalted

\* C29: for a step not handed to the controller and not ending on a tool
\* message: a last message with content is given to the classifier, and when
\* it answers yes the updated state is returned halted AwaitUser without
\* isFinal being called; otherwise isFinal is called exactly when the last
\* message is an assistant message, and the updated state is returned halted
\* Done when it answers true and running in every other case.  The state is
\* never Done when the last message is not an assistant message.
C29_AwaitUserThenGoal ==
  (ModelReturned /\ NotResolved /\ ~EndsOnTool) =>
    LET last       == Last(ModelOutput.messages)
        hasContent == last.content # NullContent
        final      == step.calls[Len(step.calls)]
        asksUser   == /\ Len(step.calls) >= 2
                      /\ step.calls[2].fn = "requestsInput"
                      /\ step.calls[2].ans = "yes"
        declined   == /\ Len(step.calls) >= 2
                      /\ step.calls[2].fn = "requestsInput"
                      /\ step.calls[2].ans = "no"
    IN /\ "controller" \notin CalledFns
       /\ hasContent => (Len(step.calls) >= 2 /\ step.calls[2].fn = "requestsInput")
       /\ ~hasContent => "requestsInput" \notin CalledFns
       /\ asksUser =>
            /\ Len(step.calls) = 2
            /\ step.pc = "returned"
            /\ step.out = [UpdatedState EXCEPT !.halted = awaitUser]
       /\ "isFinal" \in CalledFns <=>
            (last.role = "assistant" /\ (~hasContent \/ declined))
       /\ "isFinal" \in CalledFns => final.fn = "isFinal"
       /\ step.pc = "returned" =>
            /\ step.out = [UpdatedState EXCEPT !.halted = step.out.halted]
            /\ step.out.halted \in {NotHalted, awaitUser, Done}
            /\ step.out.halted = awaitUser <=> asksUser
            /\ step.out.halted = Done <=>
                 (last.role = "assistant" /\ final.fn = "isFinal"
                                          /\ final.ans = "true")

C29_Witness ==
  /\ ModelReturned
  /\ step.ctx.controller # None
  /\ Last(ModelOutput.messages) = Assistant(text(<<"a">>))
  /\ Len(step.calls) = 2
  /\ step.calls[2].fn = "requestsInput"
  /\ step.calls[2].ans = "yes"
  /\ step.pc = "returned"
  /\ step.out.halted = awaitUser

\* The calls of the controller made by the step
ControllerCalls == {i \in 1..Len(step.calls) : step.calls[i].fn = "controller"}

\* C36: a step calls the controller at most once, and only on a ToolError
\* input (with the input), after the model call threw (with the state halted
\* ToolError) or after a stuck model output (with the updated state); never
\* on an AwaitUser, Done or Stopped input nor after an output that is not
\* stuck.  The controller's call is the step's last call and its result is
\* the step's result, unchanged.
C36_ControllerOnceAndVerbatim ==
  /\ Cardinality(ControllerCalls) <= 1
  /\ \A i \in ControllerCalls :
       /\ i = Len(step.calls)
       /\ step.ctx.controller # None
       /\ \/ /\ i = 1
             /\ step.in.halted.kind = ToolErrorKind
             /\ step.calls[i].arg = step.in
          \/ /\ i = 2
             /\ ModelThrew
             /\ step.calls[i].arg = HaltedByModel
          \/ /\ i = 2
             /\ ModelReturned
             /\ isStuck(step.in, ModelOutput.messages)
             /\ step.calls[i].arg = UpdatedState
       /\ step.calls[i].ans = "pending" => step.pc = "controller"
       /\ step.calls[i].ans = "ok" =>
            step.pc = "returned" /\ step.out = step.calls[i].res
       /\ step.calls[i].ans = "throw" => step.pc = "thrown"
  /\ step.in.halted.kind \in {AwaitUserKind, DoneKind, StoppedKind} =>
       ControllerCalls = {}
  /\ (ModelReturned /\ ~isStuck(step.in, ModelOutput.messages)) =>
       ControllerCalls = {}

C36_Witness ==
  /\ step.in.halted.kind = ToolErrorKind
  /\ ControllerCalls = {1}
  /\ step.pc = "returned"
  /\ step.out.halted = NotHalted
  /\ Len(step.out.messages) = Len(step.in.messages) + 1

\* The message list of the state stepAgent builds: the one it returns, or the
\* one it hands to the controller when the controller decides the result
Built == IF "controller" \in CalledFns
           THEN step.calls[Len(step.calls)].arg.messages
           ELSE step.out.messages

\* C25: stepAgent never truncates or reorders the messages.  On the AwaitUser
\* path it returns the input list plus one message; on the Done, Stopped and
\* ToolError paths and after a failed model call the list of the state it
\* builds (returned, or handed to the controller, whose result is returned
\* as it is) is the input list; on every other path the list it builds is
\* the list the model call returned.
C25_MessagesNeverTruncated ==
  /\ (step.pc = "returned" /\ step.in.halted = awaitUser) =>
       /\ Len(step.out.messages) = Len(step.in.messages) + 1
       /\ SubSeq(step.out.messages, 1, Len(step.in.messages)) = step.in.messages
  /\ (step.pc = "returned" /\ step.in.halted.kind \in {DoneKind, StoppedKind}) =>
       step.out.messages = step.in.messages
  /\ (Called /\ step.in.halted.kind = ToolErrorKind) =>
       /\ step.ctx.controller = None =>
            (step.pc = "returned" /\ step.out.messages = step.in.messages)
       /\ step.ctx.controller # None =>
            (Len(step.calls) = 1 /\ Built = step.in.messages)
  /\ ModelThrew =>
       /\ step.ctx.controller = None =>
            (step.pc = "returned" /\ step.out.messages = step.in.messages)
       /\ step.ctx.controller # None =>
            (Len(step.calls) = 2 /\ Built = step.in.messages)
  /\ (ModelReturned /\ step.pc = "returned") => Built = ModelOutput.messages
  /\ (step.pc = "returned" /\ "controller" \in CalledFns) =>
       step.out = step.calls[Len(step.calls)].res

C25_Witness ==
  /\ ModelThrew
  /\ step.ctx.controller # None
  /\ step.pc = "returned"
  /\ Built = step.in.messages
  /\ step.in.messages # <<>>
  /\ Len(step.out.messages) = Len(step.in.messages) + 1

(***************************************************************************)
(* Properties of loops and workflows (Spec)                                *)
(***************************************************************************)
\* The maxSteps of the running loop (Unset when it has none)
Budget == seqs[current].options.maxSteps
LoopEnded == loop.pc \in {"returned", "thrown"}
ForcedStop(s) == [s EXCEPT !.halted = Stopped]

\* C2 as stated: under a budget N, whenever a loop has ended without any state
\* reaching Done or Stopped, it has called stepAgent exactly N times and has
\* returned the current state forced to Stopped.
C2_Original ==
  (Budget # Unset /\ LoopEnded /\ ~Terminal(loop.state)) =>
    /\ loop.steps = Budget
    /\ loop.pc = "returned"
    /\ loop.result = ForcedStop(loop.state)

\* C2 (amended): under a budget N >= 0 a loop calls stepAgent at most N times;
\* if no state reaches Done or Stopped earlier and no step throws, it calls
\* stepAgent exactly N times (steps on AwaitUser and ToolError states
\* included) and returns the current state with its halt status forced to
\* Stopped and its messages and memory unchanged.
C2_BudgetBoundsSteps ==
  Budget # Unset =>
    /\ loop.steps <= Budget
    /\ (loop.pc = "returned" /\ ~Terminal(loop.state)) =>
         /\ loop.steps = Budget
         /\ loop.result.halted = Stopped
         /\ loop.result.messages = loop.state.messages
         /\ loop.result.memory = loop.state.memory
         /\ loop.result = ForcedStop(loop.state)

C2_Witness ==
  /\ Budget = MaxBudget
  /\ loop.pc = "returned"
  /\ loop.steps = MaxBudget
  /\ loop.state.halted.kind = ToolErrorKind
  /\ loop.init.halted.kind = AwaitUserKind
  /\ loop.result.halted = Stopped

ConfigError == "No getUserInput handler provided."
\* The loop's state awaits the user and the contract has no getUserInput hook
MissingHook ==
  /\ loop.state.halted.kind = AwaitUserKind
  /\ seqs[current].ctx.getUserInput = None

\* C11: a step on a state halted AwaitUser under a contract with no
\* getUserInput hook throws the configuration error, having called no
\* collaborator (so neither the model) and returned no state; the loop's state
\* stays as it was, the error ends loopAgent and the workflow, and nothing is
\* run afterwards (no retry).
C11_MissingInputHookIsFatal ==
  /\ [](/\ (loop.pc = "stepping" /\ MissingHook) =>
             /\ step.pc = "thrown"
             /\ step.error = ConfigError
             /\ step.calls = <<>>
             /\ step.in = loop.state
        /\ (loop.pc = "thrown" /\ loop.error = ConfigError) =>
             /\ MissingHook
             /\ wf.pc = "thrown")
  /\ [][loop.pc = "thrown" => (loop' = loop /\ step' = step /\ wf' = wf)]_vars

C11_Witness ==
  /\ loop.pc = "thrown"
  /\ loop.error = ConfigError
  /\ wf.pc = "thrown"
  /\ loop.init.halted = NotHalted
  /\ loop.steps = 2
  /\ loop.modelCalls = 1
  /\ loop.state.halted = awaitUser

\* C8: when the first sequence ends Done and its nextSequence hook returns a
\* second contract with no nextSequence of its own, whose run also ends Done,
\* runWorkflow returns a history of exactly these two sequences in the order
\* they ran, and a final state, halted Done, that is the terminal state of
\* the second sequence.
C8_TwoStageWorkflow ==
  (/\ wf.pc = "returned"
   /\ Len(seqs) > 1
   /\ seqs[1].state.halted.kind = DoneKind
   /\ seqs[2].ctx.nextSequence = None
   /\ current = 2
   /\ loop.result.halted.kind = DoneKind) =>
    /\ wf.history = <<1, 2>>
    /\ Len(seqs) = 2
    /\ wf.final = loop.result
    /\ wf.final.halted = Done
    /\ seqs[2].state = wf.final

C8_Witness ==
  /\ wf.pc = "returned"
  /\ wf.history = <<1, 2>>
  /\ seqs[1].state.halted = Done
  /\ seqs[1].ctx.nextSequence # None
  /\ seqs[2].ctx.nextSequence = None
  /\ loop.init.halted = NotHalted
  /\ loop.steps > 0
  /\ wf.final.halted = Done
  /\ wf.final = loop.result

\* C10: a loop started on a state already Done or Stopped returns that state
\* unchanged with no stepAgent call and no model call, for every budget (0 and
\* none included); and since a new loop on any returned state makes the same
\* first test, feeding a loop's final state to a new loop is a no-op.
C10_TerminalStartIsNoOp ==
  /\ Terminal(loop.init) =>
       /\ loop.pc \in {"head", "returned"}
       /\ loop.steps = 0
       /\ loop.modelCalls = 0
       /\ loop.pc = "returned" => loop.result = loop.init
  /\ loop.pc = "returned" =>
       \A r \in (0..MaxBudget) \cup {Infinity} :
         loopHead(loop.result, r) = "return"

C10_Witness ==
  /\ loop.pc = "returned"
  /\ loop.init.halted = Done
  /\ Budget = 0
  /\ loop.result = loop.init
  /\ seqs[current].ctx.controller # None

\* C15: a state returned by loopAgent (so by Sequence.run and Sequence.next) is
\* halted Done or Stopped; the loop ends only by returning a state it found
\* Done or Stopped, by returning the state forced to Stopped when the budget
\* is spent, or by an exception.
C15_LoopReturnsOnlyTerminal ==
  /\ loop.pc \in {"head", "stepping", "returned", "thrown"}
  /\ loop.pc = "returned" =>
       /\ Terminal(loop.result)
       /\ \/ Terminal(loop.state) /\ loop.result = loop.state
          \/ /\ ~Terminal(loop.state)
             /\ loop.remaining = 0
             /\ loop.result = ForcedStop(loop.state)
  /\ loop.pc = "thrown" => loop.error # None
  /\ \A i \in 1..Len(wf.nexts) : Terminal(wf.nexts[i].terminal)

C15_Witness ==
  /\ loop.pc = "returned"
  /\ Budget = 1
  /\ loop.steps = 1
  /\ loop.init.halted = NotHalted
  /\ loop.state.halted = awaitUser
  /\ loop.result.halted = Stopped

C17_SuccessorInputHook ==
  \A i \in 1..Len(wf.nexts) :
    LET e == wf.nexts[i]
    IN e.to # e.from =>
         seqs[e.to].ctx.getUserInput =
           IF e.nextInput # None THEN e.nextInput
           ELSE IF e.preserveInput THEN seqs[e.from].ctx.getUserInput
           ELSE None

C17_Witness ==
  /\ wf.pc = "returned"
  /\ Len(wf.nexts) = 2
  /\ wf.nexts[1].to = 2
  /\ seqs[1].ctx.getUserInput = "input1"
  /\ wf.nexts[1].nextInput = None
  /\ wf.nexts[1].preserveInput
  /\ seqs[2].ctx.getUserInput = "input1"

\* C18: when runWorkflow has returned, the history lists each Sequence that
\* ran once, in the order they ran, entry i+1 being the Sequence that entry
\* i's next returned, and every entry holds the terminal state its own run
\* produced.
C18_HistoryHoldsTerminalStates ==
  wf.pc = "returned" =>
    /\ Len(wf.nexts) = Len(wf.history)
    /\ \A i \in 1..Len(wf.history) :
         /\ wf.nexts[i].from = wf.history[i]
         /\ seqs[wf.history[i]].state = wf.nexts[i].terminal
         /\ i < Len(wf.history) => wf.history[i + 1] = wf.nexts[i].to
    /\ \A i, j \in 1..Len(wf.history) : i # j => wf.history[i] # wf.history[j]

C18_Witness ==
  /\ wf.pc = "returned"
  /\ wf.history = <<1, 2>>
  /\ Len(seqs[1].state.messages) = 3
  /\ seqs[1].state.halted = Done
  /\ Len(seqs[2].state.messages) = 2
  /\ seqs[2].state.halted = Stopped

\* C19: runWorkflow returns exactly when a Sequence's next returns the
\* Sequence itself, which is the first time that happens, and its final state
\* is the terminal state returned by that call; a run that ended Stopped makes
\* next return the Sequence itself whether or not the contract has a
\* nextSequence hook; nothing runs after runWorkflow has returned.
C19_WorkflowStopsAtFirstSelf ==
  /\ [](/\ \A i \in 1..Len(wf.nexts) :
             /\ wf.nexts[i].to = wf.nexts[i].from =>
                  (i = Len(wf.nexts) /\ wf.pc = "returned")
             /\ wf.nexts[i].terminal.halted.kind = StoppedKind =>
                  wf.nexts[i].to = wf.nexts[i].from
        /\ wf.pc = "returned" =>
             LET e == wf.nexts[Len(wf.nexts)]
             IN /\ e.to = e.from
                /\ e.from = wf.history[Len(wf.history)]
                /\ wf.final = e.terminal)
  /\ [][wf.pc = "returned" =>
          (loop' = loop /\ step' = step /\ seqs' = seqs /\ wf' = wf)]_vars

C19_Witness ==
  /\ wf.pc = "returned"
  /\ wf.history = <<1>>
  /\ seqs[1].ctx.nextSequence # None
  /\ loop.steps = MaxBudget
  /\ wf.final.halted = Stopped
  /\ wf.final.messages # loop.init.messages

\* The model calls of the running step that have not settled
InFlight ==
  {i \in 1..Len(step.calls) :
     step.calls[i].fn = "model" /\ step.calls[i].ans = "pending"}

\* C21: within one loopAgent run the stepAgent invocations never overlap: the
\* invocations started exceed the invocations settled (returned or thrown) by
\* at most one, and by one exactly while loopAgent awaits stepAgent; an
\* activation of stepAgent exists only then, and at most one model call is in
\* flight, made by that activation.
C21_StepsNeverOverlap ==
  /\ loop.steps - loop.finished \in {0, 1}
  /\ loop.steps - loop.finished = 1 <=> loop.pc = "stepping"
  /\ step # IdleStep => loop.pc = "stepping"
  /\ Cardinality(InFlight) <= 1
  /\ InFlight # {} => (loop.pc = "stepping" /\ step.pc = "model")
  /\ loop.modelCalls <= loop.steps

C21_Witness ==
  /\ loop.steps = 2
  /\ loop.finished = 1
  /\ loop.pc = "stepping"
  /\ step.pc = "model"
  /\ InFlight = {1}

\* The reply and the controller's message of the recovery scenario
Reply    == Assistant(text(<<"a">>))
Reminder == SystemMessage(<<"c">>)

\* C26 (states): the step loopAgent awaits was given the loop's current
\* state, the first step the initial state, and its model call that state's
\* messages and memory; a second step whose input is the initial messages
\* followed by the controller's message and whose model call appends a reply
\* returns the initial messages, the controller's message and the reply.
C26_StepGetsLoopState ==
  (wf.pc = "running" /\ loop.pc = "stepping") =>
    /\ step.in = loop.state
    /\ loop.steps = 1 => step.in = loop.init
    /\ \A i \in 1..Len(step.calls) :
         step.calls[i].fn = "model" =>
           /\ step.calls[i].arg.messages = loop.state.messages
           /\ step.calls[i].arg.memory = loop.state.memory
    /\ (/\ loop.steps = 2
        /\ loop.state.messages = Append(loop.init.messages, Reminder)
        /\ step.pc = "returned"
        /\ step.calls # <<>>
        /\ step.calls[1].fn = "model"
        /\ step.calls[1].ans = "ok"
        /\ step.calls[1].res.messages = Append(loop.state.messages, Reply)
        /\ "controller" \notin CalledFns) =>
         step.out.messages = loop.init.messages \o <<Reminder, Reply>>

\* C26 (steps): when a step returns, the state it returned, which is the
\* controller's result when the controller was the last call of the step,
\* becomes the loop's state
C26_LoopKeepsStepResult ==
  (loop.pc = "stepping" /\ loop'.pc = "head") =>
    /\ loop'.state = step.out
    /\ (step.calls # <<>> /\ step.calls[Len(step.calls)].fn = "controller") =>
         loop'.state = step.calls[Len(step.calls)].res

\* C26: the model input of step k+1 is exactly the messages and memory of the
\* state step k returned (the controller's result when a controller recovered
\* the step); a run whose first model call makes no progress and whose second
\* replies ends with the initial messages, the controller's message and the
\* model's reply.
C26_StateFlowsBetweenSteps ==
  []C26_StepGetsLoopState /\ [][C26_LoopKeepsStepResult]_vars

C26_Witness ==
  /\ wf.pc = "running"
  /\ loop.pc = "stepping"
  /\ loop.steps = 2
  /\ loop.init.messages = <<UserMessage(<<"u">>)>>
  /\ loop.state.messages = <<UserMessage(<<"u">>), Reminder>>
  /\ step.pc = "returned"
  /\ step.out.messages = <<UserMessage(<<"u">>), Reminder, Reply>>
  /\ step.out.halted = Done

(***************************************************************************)
(* Properties of the observers (SpecObs)                                   *)
(***************************************************************************)
\* An observer's exception ends the run: runWorkflow rejects with it
ObserverThrew ==
  /\ wf.pc = "running"
  /\ wf'.pc = "thrown"
  /\ wf'.error = ObserverError
  /\ history' = history
  /\ current' = current

\* C20 as stated: with onStateChange, onStart, onStop and onSequenceChange
\* installed, every step of loopAgent and runWorkflow is a step the same run
\* takes, from the same state, with no observer installed.
C20_Original == [][BareNext]_vars

\* How far C20 holds: with the observers installed, every step of loopAgent
\* and runWorkflow is a step the same run takes with no observer installed
\* (same stepAgent calls, same budget, same states, same history and final
\* state), except that an exception thrown by an observer ends the run at
\* that point.
C20_ObserversSteerOnlyByThrowing == [][BareNext \/ ObserverThrew]_vars

C20_Witness ==
  /\ wf.pc = "returned"
  /\ wf.onSequenceChange
  /\ seqs[1].options.observers = AllObservers
  /\ seqs[current].options.observers = AllObservers
  /\ wf.history = <<1, 2>>
  /\ loop.steps = MaxBudget
  /\ wf.final.halted = Stopped

Composed == patchOut.ret # None
PatchA   == patchIn.patches[1]
PatchB   == patchIn.patches[2]
\* The patch assigns key k a value other than the base value of k
Writes(patch, k) ==
  patch.op = "set" /\ patch.key = k /\ patch.val # Get(patchIn.memory, k)

\* C6: composePatches(base, [patchA, patchB]) throws a conflict whenever both
\* patches write the same key, each to a value different from the base value,
\* and does so in the order [patchB, patchA] as well.
C6_SameKeyConflicts ==
  (/\ Composed
   /\ Len(patchIn.patches) = 2
   /\ \E k \in Keys : Writes(PatchA, k) /\ Writes(PatchB, k)) =>
    /\ patchOut.ret = "throw"
    /\ composePatches(patchIn.memory, <<PatchB, PatchA>>).ret = "throw"

C6_Witness ==
  /\ patchOut.ret = "throw"
  /\ Len(patchIn.patches) = 2
  /\ "x" \in DOMAIN patchIn.memory
  /\ PatchA = [op |-> "set", key |-> "x", val |-> "a"]
  /\ PatchB = [op |-> "set", key |-> "x", val |-> "b"]
  /\ Writes(PatchA, "x") /\ Writes(PatchB, "x")

\* C7: composePatches(base, [patchA, patchB]) where the patches write
\* disjoint keys does not throw, and the returned memory holds both writes.
C7_DisjointKeysCompose ==
  (/\ Composed
   /\ Len(patchIn.patches) = 2
   /\ \E k1, k2 \in Keys :
        k1 # k2 /\ Writes(PatchA, k1) /\ Writes(PatchB, k2)) =>
    /\ patchOut.ret = "ok"
    /\ Get(patchOut.memory, PatchA.key) = PatchA.val
    /\ Get(patchOut.memory, PatchB.key) = PatchB.val

\* The patch changes key k of memory m: its value, or whether it is present
Changes(patch, m, k) ==
  LET after == applyPatch(patch, m)
  IN \/ (k \in DOMAIN m) # (k \in DOMAIN after)
     \/ Get(m, k) # Get(after, k)

\* C31: composePatches never lets one patch silently overwrite another's
\* write: when the first of two patches changes a key and the second changes
\* that key again (to any value, the base value included, or by removing
\* it), composePatches throws.
C31_NoSilentOverwrite ==
  (/\ Composed
   /\ Len(patchIn.patches) = 2
   /\ \E k \in Keys :
        /\ Changes(PatchA, patchIn.memory, k)
        /\ Changes(PatchB, applyPatch(PatchA, patchIn.memory), k)) =>
    patchOut.ret = "throw"

(***************************************************************************)
(* Termination (SpecLive)                                                  *)
(***************************************************************************)
\* runWorkflow has returned {final, history}: a final state halted Done or
\* Stopped and one history entry per stage run
WorkflowReturned ==
  /\ wf.pc = "returned"
  /\ wf.final.halted.kind \in {DoneKind, StoppedKind}
  /\ Len(wf.history) = Len(seqs)

\* stepAgent found a state awaiting the user and no getUserInput hook
MissingInputHook == "No getUserInput handler provided."

HookThrew ==
  /\ step.calls # <<>>
  /\ Last(step.calls).fn \in {"getUserInput", "controller", "requestsInput", "isFinal"}
  /\ Last(step.calls).ans = "throw"

\* The step's only call was the model call, which threw
OnlyModelThrew == ModelThrew /\ Len(step.calls) = 1

\* C35: only a failure of the main model call becomes a ToolError state.  An
\* exception thrown by getUserInput, the controller, isFinal or the yes/no
\* classifier makes stepAgent throw; loopAgent and runWorkflow then reject
\* with that exception, onStop is not called for the step, and nothing more
\* happens in the run.
C35_HookFailuresPropagate ==
  /\ [](/\ HookThrew => step.pc = "thrown"
        /\ OnlyModelThrew =>
             step.pc = "returned" /\ step.out = HaltedByModel
        /\ step.pc = "thrown" =>
             \/ HookThrew
             \/ /\ step.calls = <<>>
                /\ step.in.halted.kind = AwaitUserKind
                /\ step.ctx.getUserInput = None)
  /\ [][/\ (loop.pc = "stepping" /\ step.pc = "thrown") =>
             /\ loop'.pc = "thrown"
             /\ wf'.pc = "thrown"
             /\ wf'.error = step.error
             /\ observed' = observed
        /\ wf.pc # "thrown"]_vars

C35_Witness ==
  /\ wf.pc = "thrown"
  /\ wf.error = "classifier_error"
  /\ observed.onStart.n = 2
  /\ observed.onStop.n = 1

(***************************************************************************)
(* Properties of chained contracts and budgets (Spec)                      *)
(***************************************************************************)
\* The calls of Sequence.next that returned a new Sequence
Chainings == {i \in 1..Len(wf.nexts) : wf.nexts[i].to # wf.nexts[i].from}

\* The successor's contract and options are the merge of the receiver's and
\* of what nextSequence returned: a field nextSequence set overrides, the
\* others are inherited
MergedFrom(e) ==
  LET this == seqs[e.from]
      new  == seqs[e.to]
  IN /\ new.options.maxSteps =
          (IF e.nextOpts.maxSteps # Unset THEN e.nextOpts.maxSteps
           ELSE this.options.maxSteps)
     /\ new.options.preserveInput =
          (e.nextOpts.preserveInput \/ this.options.preserveInput)
     /\ new.options.debug = this.options.debug
     /\ new.ctx.controller = e.nextCtx.controller
     /\ new.ctx.nextSequence = e.nextCtx.nextSequence
     /\ new.ctx.getUserInput \in
          {e.nextCtx.getUserInput, this.ctx.getUserInput}

\* No step changes the contract or the options of a Sequence that exists
ContractsKept ==
  /\ Len(seqs') >= Len(seqs)
  /\ \A i \in 1..Len(seqs) :
       /\ seqs'[i].ctx = seqs[i].ctx
       /\ seqs'[i].options = seqs[i].options

\* C34: chaining mutates no contract and no options object: Sequence.next
\* builds a new contract and new options for the successor, merged from the
\* receiver's and from those nextSequence returned (fields set by
\* nextSequence override, the others are inherited), and no step of a run
\* changes the contract or the options of an existing Sequence.
C34_ChainingMutatesNothing ==
  /\ [](\A i \in Chainings : MergedFrom(wf.nexts[i]))
  /\ [][ContractsKept]_vars

C34_Witness ==
  /\ wf.pc = "returned"
  /\ Len(seqs) = 2
  /\ Chainings = {1}
  /\ wf.nexts[1].nextOpts.maxSteps = 1
  /\ seqs[1].options.maxSteps = MaxBudget
  /\ seqs[2].options.maxSteps = 1
  /\ seqs[1].ctx.nextSequence = "next1"
  /\ seqs[2].ctx.nextSequence = None

\* The run of the current Sequence has its whole budget, whatever the runs
\* before it have used
FreshBudget ==
  /\ loop.steps = 0
  /\ loop.finished = 0
  /\ loop.remaining = (IF Budget = Unset THEN Infinity ELSE Budget)

\* C37: the step budget is per Sequence.  Each Sequence run by runWorkflow
\* starts its loop with the maxSteps of its merged options (its own when
\* nextSequence set one, else the one of the Sequence it was chained from)
\* and never makes more steps than that, so that the runs of a workflow
\* together make no more steps than the sum of their budgets.
C37_BudgetPerSequence ==
  /\ [](/\ (wf.pc = "running" /\ loop.pc = "head" /\ loop.steps = 0) =>
             FreshBudget
        /\ Budget # Unset => loop.steps <= Budget
        /\ \A i \in Chainings :
             seqs[wf.nexts[i].to].options.maxSteps =
               (IF wf.nexts[i].nextOpts.maxSteps # Unset
                  THEN wf.nexts[i].nextOpts.maxSteps
                  ELSE seqs[wf.nexts[i].from].options.maxSteps))
  /\ [][current' # current => FreshBudget']_vars

C37_Witness ==
  /\ wf.pc = "returned"
  /\ Len(wf.nexts) = 2
  /\ wf.nexts[1].nextOpts.maxSteps = Unset
  /\ seqs[1].options.maxSteps = MaxBudget
  /\ Len(wf.nexts[1].terminal.messages) = MaxMsgs
  /\ seqs[2].options.maxSteps = MaxBudget
  /\ loop.steps = MaxBudget
  /\ wf.final.halted = Stopped

(***************************************************************************)
(* Properties of the main-model calls (Spec)                               *)
(***************************************************************************)
\* The calls of the main model made by the running step
ModelCallsOfStep == {i \in 1..Len(step.calls) : step.calls[i].fn = "model"}

\* C33: a stepAgent invocation calls the main model exactly once when its
\* input has no halt status and not at all when it is halted; a loopAgent run
\* makes at most one model call per step and, with budget N, at most N.
C33_OneModelCallPerStep ==
  /\ (wf.pc = "running" /\ loop.pc = "stepping") =>
       Cardinality(ModelCallsOfStep) =
         (IF step.in.halted.kind = None THEN 1 ELSE 0)
  /\ loop.modelCalls <= loop.steps
  /\ Budget # Unset => loop.modelCalls <= Budget

C33_Witness ==
  /\ loop.pc = "returned"
  /\ Budget = MaxBudget
  /\ loop.modelCalls = MaxBudget
  /\ loop.result.halted = Stopped

\* The loop runs, with no controller, on a state halted ToolError
StuckOnToolError ==
  /\ wf.pc = "running"
  /\ loop.pc \in {"head", "stepping"}
  /\ seqs[current].ctx.controller = None
  /\ loop.state.halted.kind = ToolErrorKind

\* A step on a ToolError state makes no model call: it hands the state to the
\* controller and settles as the controller does, or with no controller
\* returns its input
ToolErrorStepSkipsModel ==
  (wf.pc = "running" /\ loop.pc = "stepping"
     /\ step.in.halted.kind = ToolErrorKind) =>
    /\ ModelCallsOfStep = {}
    /\ IF step.ctx.controller # None
         THEN /\ Len(step.calls) = 1
              /\ step.calls[1].fn = "controller"
              /\ step.calls[1].arg = step.in
              /\ step.pc = "returned" => step.out = step.calls[1].res
         ELSE /\ step.calls = <<>>
              /\ step.pc = "returned"
              /\ step.out = step.in

\* C32: a step on a ToolError state does not call the model; with a
\* controller it returns the controller's result, with none its input.  With
\* no controller, once the state of a loop is halted ToolError every later
\* step leaves it as it is, the model is not called again, and the loop ends
\* only when its budget is spent, returning the state with Stopped in place
\* of the ToolError status.
C32_ToolErrorIsAbsorbing ==
  /\ [](ToolErrorStepSkipsModel)
  /\ [][StuckOnToolError =>
         /\ loop'.modelCalls = loop.modelCalls
         /\ loop'.state = loop.state
         /\ wf'.pc = "running"
         /\ loop'.pc \in {"head", "stepping", "returned"}
         /\ loop'.pc = "returned" =>
              /\ loop.remaining = 0
              /\ loop'.result = [loop.state EXCEPT !.halted = Stopped]]_vars

C32_Witness ==
  /\ loop.pc = "returned"
  /\ seqs[current].ctx.controller = None
  /\ loop.state.halted.kind = ToolErrorKind
  /\ loop.result.halted = Stopped
  /\ loop.modelCalls = 1
  /\ loop.steps = MaxBudget

(***************************************************************************)
(* Properties of tool lookup (SpecTools)                                   *)
(***************************************************************************)
\* A call or lookup completes in this step
Completes == toolOut'.n # toolOut.n

\* C9 as stated: a ToolRegistry.call on a name absent from the registry, and a
\* registeredTool lookup of a name the server does not list, fail with an
\* error, run no handler and change neither the memory passed in nor the
\* registry.
C9_Original ==
  [][Completes =>
       /\ (toolOut'.op = "call" /\ toolOut'.name \notin DOMAIN registry) =>
            /\ toolOut'.ret = "throw"
            /\ handlerRuns' = handlerRuns
            /\ registry' = registry
            /\ toolOut'.memory = toolOut'.passed
       /\ (toolOut'.op = "registeredTool" /\ toolOut'.name \notin DOMAIN registry) =>
            /\ toolOut'.ret = "throw"
            /\ handlerRuns' = handlerRuns
            /\ registry' = registry]_vars

\* C9 (amended): a ToolRegistry.call on a name absent from the registry, and a
\* registeredTool lookup of a name absent from the tool list that listTools
\* yields (the list fetched last, kept for 5 minutes), fail with an error every
\* time, run no handler and change neither the memory passed in nor the
\* registry.
C9_UnknownToolFails ==
  [][Completes =>
       /\ (toolOut'.op = "call" /\ toolOut'.name \notin DOMAIN registry) =>
            /\ toolOut'.ret = "throw"
            /\ handlerRuns' = handlerRuns
            /\ registry' = registry
            /\ toolOut'.memory = toolOut'.passed
       /\ (toolOut'.op = "registeredTool" /\ toolOut'.name \notin toolOut'.list) =>
            /\ toolOut'.ret = "throw"
            /\ handlerRuns' = handlerRuns
            /\ registry' = registry]_vars

C9_Witness ==
  /\ toolOut.n = MaxCalls
  /\ toolOut.op = "registeredTool"
  /\ toolOut.name = "ghost"
  /\ toolOut.list = {"echo"}
  /\ toolOut.ret = "throw"
  /\ toolOut.error = "Tool not found"
  /\ handlerRuns > 0

\* listTools is called in this step (by registeredTool)
ListCalled ==
  \/ mcp'.waiting # mcp.waiting /\ mcp.waiting \subseteq mcp'.waiting
  \/ /\ toolOut'.n # toolOut.n
     /\ toolOut'.op = "registeredTool"
     /\ mcp'.waiting = mcp.waiting
Fetched == Len(mcp'.promises) # Len(mcp.promises)

\* C23: listTools keeps the tool list for 5 minutes.  A call made while a
\* list is cached and at most 5 minutes after the call that fetched it sends
\* no request and yields the cached list; a call made with nothing cached or
\* more than 5 minutes after the last fetching call sends one request, caches
\* its result and restarts the window at the time of that call.  Nothing else
\* sends a request or moves the window.
C23_ListCachedFiveMinutes ==
  [][/\ (ListCalled /\ mcp.cache # 0 /\ now - mcp.timestamp <= 5) =>
          /\ mcp'.promises = mcp.promises
          /\ mcp'.cache = mcp.cache
          /\ mcp'.timestamp = mcp.timestamp
          /\ toolOut'.n # toolOut.n =>
               toolOut'.list = mcp.promises[mcp.cache].tools
     /\ (ListCalled /\ (mcp.cache = 0 \/ now - mcp.timestamp > 5)) =>
          /\ mcp'.promises = Append(mcp.promises, PendingFetch)
          /\ mcp'.cache = Len(mcp.promises) + 1
          /\ mcp'.timestamp = now
     /\ (Fetched \/ mcp'.timestamp # mcp.timestamp \/ mcp'.cache # mcp.cache) =>
          ListCalled]_vars

C23_Witness ==
  /\ Len(mcp.promises) = 2
  /\ mcp.cache = 2
  /\ mcp.timestamp = 6
  /\ mcp.promises[1].status = "ok"
  /\ toolOut.n = 1
  /\ toolOut.op = "registeredTool"
  /\ toolOut.ret = "ok"

\* A call of listTools made within the window of the cached fetch
InWindow == ListCalled /\ mcp.cache # 0 /\ now - mcp.timestamp <= Duration
CachedFetch == mcp.promises[mcp.cache]
\* A call settles in this step on a failed fetch
RejectsAsFetch ==
  /\ toolOut'.n = toolOut.n + 1
  /\ toolOut'.ret = "throw"
  /\ toolOut'.error = "Failed to list tools"

\* C40: listTools sends at most one request per 5-minute window, whatever
\* becomes of it.  A call made in the window while the fetch is pending waits
\* for that same fetch; a call made in the window after the fetch has failed
\* rejects with the failure of that fetch; neither sends a request.  Every
\* call that waited for a fetch that fails rejects with its failure.
C40_OneFetchPerWindow ==
  /\ [](/\ Len(mcp.promises) <= 1 + (now \div (Duration + 1))
        /\ mcp.cache = Len(mcp.promises)
        /\ \A w \in mcp.waiting : w[2] \in 1..Len(mcp.promises))
  /\ [][/\ (InWindow /\ CachedFetch.status = "pending") =>
             /\ mcp'.promises = mcp.promises
             /\ mcp'.cache = mcp.cache
             /\ toolOut' = toolOut
             /\ \E name \in ToolNames : <<name, mcp.cache>> \in mcp'.waiting
        /\ (InWindow /\ CachedFetch.status = "failed") =>
             /\ mcp' = mcp
             /\ RejectsAsFetch
        /\ \A w \in mcp.waiting \ mcp'.waiting :
             mcp.promises[w[2]].status = "failed" => RejectsAsFetch]_vars

C40_Witness ==
  /\ Len(mcp.promises) = 1
  /\ mcp.promises[1].status = "failed"
  /\ mcp.waiting = {}
  /\ now = Duration
  /\ toolOut.n = 2
  /\ toolOut.op = "registeredTool"
  /\ toolOut.ret = "throw"
  /\ toolOut.error = "Failed to list tools"

(***************************************************************************)
(* Properties of remote tool calls (SpecMCP)                               *)
(***************************************************************************)
\* The server answers post i in this step
Answers(i) ==
  /\ i \in 1..Len(mcp.posts)
  /\ mcp.posts[i].status = 0
  /\ mcp'.posts[i].status # 0

\* C24 (steps): the answer to a tool call for a name absent from the
\* registry has status 500 and an error body, and runs no handler; callTool
\* rejects a call answered with status 500 with a "Tool call failed" error
C24_UnknownToolIs500 ==
  /\ \A i \in 1..MaxPosts :
       (Answers(i) /\ mcp.posts[i].name \notin DOMAIN registry) =>
         /\ mcp'.posts[i].status = 500
         /\ mcp'.posts[i].error # None
         /\ handlerRuns' = handlerRuns
  /\ \A i \in 1..Len(mcp.posts) :
       (~mcp.posts[i].settled /\ mcp'.posts[i].settled
          /\ mcp.posts[i].status = 500) =>
         /\ toolOut'.op = "callTool"
         /\ toolOut'.name = mcp.posts[i].name
         /\ toolOut'.ret = "throw"
         /\ toolOut'.error = "Tool call failed"

\* C24 (states): whatever the server has answered before, it can answer
\* every request it has received
C24_ServerKeepsServing ==
  (\E i \in 1..Len(mcp.posts) : mcp.posts[i].status = 0) => ENABLED ServeToolCall

\* C24: a tool call sent to the MCP server for a name that is not in its
\* registry is answered with status 500 and an error body, the server keeps
\* serving later requests, and MCPClient.callTool rejects with a
\* "Tool call failed" error.
C24_UnknownToolCallFails ==
  []C24_ServerKeepsServing /\ [][C24_UnknownToolIs500]_vars

C24_Witness ==
  /\ Len(mcp.posts) = 2
  /\ mcp.posts[1].name = "ghost"
  /\ mcp.posts[1].status = 500
  /\ mcp.posts[1].error = "Tool not found"
  /\ mcp.posts[1].settled
  /\ mcp.posts[2].status = 200
  /\ mcp.posts[2].settled
  /\ toolOut.n = 2
  /\ toolOut.ret = "ok"
  /\ "ghost" \notin DOMAIN registry

(***************************************************************************)
(* Properties of ChatModel (SpecChat)                                      *)
(***************************************************************************)
\* Request i is in flight: invoke has started it and its response has not
\* been fully read
InFlightRequest(i) == chat.reqs[i].phase \in Unread

\* C22: a call of stop() aborts every request of the model that is in flight
\* (from the start of invoke until its response has been fully read) and
\* leaves no abort controller registered; it changes no request that is not in
\* flight, and nothing at all when no request is in flight.
C22_StopAbortsInFlight ==
  [][chat'.stops # chat.stops =>
       /\ \A i \in 1..Len(chat.reqs) :
            IF InFlightRequest(i)
              THEN chat'.reqs[i].phase = chat.reqs[i].phase /\ chat'.reqs[i].aborted
              ELSE chat'.reqs[i] = chat.reqs[i]
       /\ chat'.abortCtl = 0
       /\ (\A i \in 1..Len(chat.reqs) : ~InFlightRequest(i)) =>
            chat' = [chat EXCEPT !.stops = @ + 1]]_vars

\* Request i settles or moves on in this step: its response arrives, its
\* body is read, or it fails
Advances(i) == chat'.reqs[i].phase # chat.reqs[i].phase

\* C39: a completion request started while another is in flight registers
\* its own abort controller, and the completion or failure of the earlier
\* request never clears it: a step of a request other than the one whose
\* controller is registered leaves the registered controller in place.
C39_EarlierRequestKeepsController ==
  [][/\ Len(chat'.reqs) # Len(chat.reqs) => chat'.abortCtl = Len(chat'.reqs)
     /\ \A i \in 1..Len(chat.reqs) :
          (Advances(i) /\ chat.abortCtl \notin {0, i}) =>
            chat'.abortCtl = chat.abortCtl]_vars

====
